---- MODULE Spec2Model ----
(***************************************************************************)
(* diskdantic: a disk-backed collection of validated records.  The model   *)
(* covers the handlers (src/diskdantic/handlers.py), slugify               *)
(* (src/diskdantic/utils.py) and the Collection lifecycle operations       *)
(* (src/diskdantic/collection.py) of two Collection instances that share   *)
(* one directory.                                                          *)
(*                                                                         *)
(* Text is a sequence of one-character strings.  A record object is an     *)
(* identity in Objs; objVal maps the live objects to their field values.   *)
(* An object is live while the caller or a cache refers to it; Release is  *)
(* the moment the last reference goes away.                                *)
(***************************************************************************)
EXTENDS Integers, Sequences, FiniteSets, TLC

\* ------------------------------------------------------------------ bounds
MaxObjs == 2
MaxFiles == 2
MaxBodyLen == 3
MaxSteps == 3
MaxOtherCalls == 1
MaxRecords == 2

Objs == 1..MaxObjs
NoObj == 0
Colls == {"A", "B"}
Formats == {"markdown", "json", "yaml"}

\* ------------------------------------------------------- partial functions
Put(f, k, v) == [x \in (DOMAIN f) \cup {k} |-> IF x = k THEN v ELSE f[x]]
Del(f, k) == [x \in (DOMAIN f) \ {k} |-> f[x]]
Restrict(f, S) == [x \in (DOMAIN f) \cap S |-> f[x]]
Range(f) == {f[x] : x \in DOMAIN f}
EmptyMap == << >>

\* -------------------------------------------------------------- characters
NL == "\n"
DigitChars == <<"0", "1", "2", "3", "4", "5", "6", "7", "8", "9">>
IsSpace(ch) == ch \in {" ", NL, "\t"}
UpperChars == <<"A", "B", "C", "D", "E", "F", "G", "H", "I", "J", "K", "L", "M",
               "N", "O", "P", "Q", "R", "S", "T", "U", "V", "W", "X", "Y", "Z">>
LowerChars == <<"a", "b", "c", "d", "e", "f", "g", "h", "i", "j", "k", "l", "m",
               "n", "o", "p", "q", "r", "s", "t", "u", "v", "w", "x", "y", "z">>
Lower(ch) == IF \E i \in 1..26 : UpperChars[i] = ch
             THEN LowerChars[CHOOSE i \in 1..26 : UpperChars[i] = ch]
             ELSE ch
\* str.lower()
str_lower(s) == [i \in 1..Len(s) |-> Lower(s[i])]
IsSlugChar(ch) == ch \in Range(LowerChars) \cup Range(DigitChars)

RECURSIVE LStrip(_)
LStrip(s) == IF s # << >> /\ IsSpace(Head(s)) THEN LStrip(Tail(s)) ELSE s
RECURSIVE RStrip(_)
RStrip(s) ==
  IF s # << >> /\ IsSpace(s[Len(s)]) THEN RStrip(SubSeq(s, 1, Len(s) - 1)) ELSE s
Strip(s) == LStrip(RStrip(s))

\* str(n) for a natural number
RECURSIVE IntStr(_)
IntStr(n) == IF n < 10 THEN <<DigitChars[n + 1]>>
             ELSE IntStr(n \div 10) \o <<DigitChars[(n % 10) + 1]>>
DigitVal(ch) == CHOOSE i \in 0..9 : DigitChars[i + 1] = ch
IsDigits(s) == \A i \in 1..Len(s) : s[i] \in Range(DigitChars)
RECURSIVE StrInt(_)
StrInt(s) == IF s = << >> THEN 0
             ELSE 10 * StrInt(SubSeq(s, 1, Len(s) - 1)) + DigitVal(s[Len(s)])
RECURSIVE ZeroPad(_, _)
ZeroPad(s, w) == IF Len(s) >= w THEN s ELSE ZeroPad(<<"0">> \o s, w)

\* ------------------------------------------------------------------ slugify
\* SLUG_PATTERN.sub("-", text): every maximal run of characters outside
\* [a-z0-9] becomes one hyphen.
RECURSIVE SlugSub(_)
SlugSub(s) ==
  IF s = << >> THEN << >>
  ELSE IF IsSlugChar(Head(s)) THEN <<Head(s)>> \o SlugSub(Tail(s))
  ELSE LET rest == SlugSub(Tail(s))
       IN IF Tail(s) # << >> /\ ~IsSlugChar(Head(Tail(s))) THEN rest
          ELSE <<"-">> \o rest
RECURSIVE LStripHyphen(_)
LStripHyphen(s) == IF s # << >> /\ Head(s) = "-" THEN LStripHyphen(Tail(s)) ELSE s
RECURSIVE RStripHyphen(_)
RStripHyphen(s) ==
  IF s # << >> /\ s[Len(s)] = "-" THEN RStripHyphen(SubSeq(s, 1, Len(s) - 1)) ELSE s
slugify(value) ==
  LET stripped == Strip(value)
      text == str_lower(stripped)
      subbed == SlugSub(text)
      trimmed == LStripHyphen(RStripHyphen(subbed))
  IN IF trimmed = << >> THEN <<"i", "t", "e", "m">> ELSE trimmed

\* ------------------------------------------------------------------- values
\* A Python value held by a payload: a str, a datetime.date or an int.
PyStr(s) == [tag |-> "str", s |-> s, d |-> << >>]
PyDate(d) == [tag |-> "date", s |-> << >>, d |-> d]
PyInt(n) == [tag |-> "int", s |-> << >>, d |-> <<n>>]

\* The record schema of the tests (BlogPost): title, date, content.  opaque
\* is TRUE when model_dump() yields a value the codecs cannot encode
\* (orjson.dumps raises TypeError, yaml.safe_dump raises RepresenterError).
MkValue(title, date, content, opaque) ==
  [title |-> title, date |-> date, content |-> content, opaque |-> opaque]
NoValue == MkValue(<< >>, << >>, << >>, FALSE)

\* model.model_dump(): the payload of a record
model_dump(v) ==
  [fields |-> [k \in {"title", "date", "content"} |->
                 CASE k = "title" -> PyStr(v.title)
                   [] k = "date" -> PyDate(v.date)
                   [] OTHER -> PyStr(v.content)],
   opaque |-> v.opaque]

\* date.isoformat() and date.fromisoformat()
isoformat(d) ==
  ZeroPad(IntStr(d[1]), 4) \o <<"-">> \o ZeroPad(IntStr(d[2]), 2) \o <<"-">>
    \o ZeroPad(IntStr(d[3]), 2)
IsIso(s) ==
  /\ Len(s) = 10
  /\ s[5] = "-" /\ s[8] = "-"
  /\ IsDigits(SubSeq(s, 1, 4)) /\ IsDigits(SubSeq(s, 6, 7)) /\ IsDigits(SubSeq(s, 9, 10))
fromisoformat(s) ==
  <<StrInt(SubSeq(s, 1, 4)), StrInt(SubSeq(s, 6, 7)), StrInt(SubSeq(s, 9, 10))>>

\* self.model.model_validate(data): the validated record, or a failure
model_validate(data) ==
  IF /\ {"title", "date", "content"} \subseteq DOMAIN data
     /\ data["title"].tag = "str"
     /\ data["content"].tag = "str"
     /\ \/ data["date"].tag = "date"
        \/ data["date"].tag = "str" /\ IsIso(data["date"].s)
  THEN [ok |-> TRUE,
        val |-> MkValue(data["title"].s,
                        IF data["date"].tag = "date" THEN data["date"].d
                        ELSE fromisoformat(data["date"].s),
                        data["content"].s, FALSE)]
  ELSE [ok |-> FALSE, val |-> NoValue]

\* ----------------------------------------------------------- file contents
\* A file is its text plus the mapping that the token DOC of the text stands
\* for: DOC is the output of the JSON/YAML codec for that mapping (the codecs
\* are external; their output holds no newline-delimiter sequence and is not
\* blank).  A scalar of the mapping is [tag, text]: the codec's node type and
\* its characters.
DOC == "<doc>"
DELIM == "---"
MkFile(text, doc) == [text |-> text, doc |-> doc]
EmptyFile == MkFile(<< >>, EmptyMap)
Node(tag, text) == [tag |-> tag, text |-> text]

\* Documents that are not mappings, valid as JSON and as YAML alike, with the
\* value json.load and yaml.safe_load give for each: [] and [1] are lists,
\* 0 and 1 are ints, null is None.
PyList(items) == [tag |-> "list", s |-> << >>, d |-> items]
PyNone == [tag |-> "none", s |-> << >>, d |-> << >>]
PlainDocs ==
  { <<"[", "]">>, <<"[", "1", "]">>, <<"0">>, <<"1">>, <<"n", "u", "l", "l">> }
PlainLoad(text) ==
  CASE text = <<"[", "]">> -> PyList(<< >>)
    [] text = <<"[", "1", "]">> -> PyList(<<PyInt(1)>>)
    [] text = <<"0">> -> PyInt(0)
    [] text = <<"1">> -> PyInt(1)
    [] OTHER -> PyNone
\* bool(value), as the operand of `or`
truthy(v) ==
  CASE v.tag = "int" -> v.d[1] # 0
    [] v.tag = "list" -> v.d # << >>
    [] v.tag = "str" -> v.s # << >>
    [] v.tag = "none" -> FALSE
    [] OTHER -> TRUE

\* orjson.dumps: str as a JSON string, date as an ISO-8601 JSON string
JsonEncode(fields) ==
  [k \in DOMAIN fields |->
     IF fields[k].tag = "date" THEN Node("str", isoformat(fields[k].d))
     ELSE Node("str", fields[k].s)]
\* json.load: a JSON string is a str
JsonDecode(doc) == [k \in DOMAIN doc |-> PyStr(doc[k].text)]
\* yaml.safe_dump: str as a string scalar, date as a timestamp scalar
YamlEncode(fields) ==
  [k \in DOMAIN fields |->
     IF fields[k].tag = "date" THEN Node("date", isoformat(fields[k].d))
     ELSE Node("str", fields[k].s)]
\* yaml.safe_load: a timestamp scalar is a date, a string scalar a str
YamlDecode(doc) ==
  [k \in DOMAIN doc |->
     IF doc[k].tag = "date" THEN PyDate(fromisoformat(doc[k].text))
     ELSE PyStr(doc[k].text)]

\* A handler's write: err, whether the destination file was opened or
\* written (touched), and the content the file then has.
WriteResult(err, touched, content) ==
  [err |-> err, touched |-> touched, content |-> content]
ReadResult(err, data) == [err |-> err, data |-> data]

\* JsonHandler.write: the file is opened for writing (truncated) before
\* orjson.dumps runs.
JsonWrite(data) ==
  IF data.opaque THEN WriteResult("TypeError", TRUE, EmptyFile)
  ELSE WriteResult("none", TRUE, MkFile(<<DOC, NL>>, JsonEncode(data.fields)))

\* JsonHandler.read: whatever json.load yields is returned
JsonRead(file) ==
  IF Strip(file.text) = <<DOC>> THEN ReadResult("none", JsonDecode(file.doc))
  ELSE IF Strip(file.text) \in PlainDocs
  THEN ReadResult("none", PlainLoad(Strip(file.text)))
  ELSE ReadResult("JSONDecodeError", EmptyMap)

\* YamlHandler.write: the file is opened for writing (truncated) before
\* yaml.safe_dump represents the data.
YamlWrite(data) ==
  IF data.opaque THEN WriteResult("RepresenterError", TRUE, EmptyFile)
  ELSE WriteResult("none", TRUE, MkFile(<<DOC, NL>>, YamlEncode(data.fields)))

\* yaml.safe_load(text) or {}, and the isinstance(payload, dict) test
YamlLoad(text, doc) ==
  IF Strip(text) = << >> THEN ReadResult("none", EmptyMap)
  ELSE IF Strip(text) = <<DOC>> THEN ReadResult("none", YamlDecode(doc))
  ELSE IF Strip(text) \in PlainDocs /\ ~truthy(PlainLoad(Strip(text)))
  THEN ReadResult("none", EmptyMap)
  ELSE ReadResult("ValueError", EmptyMap)

\* YamlHandler.read
YamlRead(file) == YamlLoad(file.text, file.doc)

\* MarkdownFrontmatterHandler.write: the body field is popped, the rest is
\* dumped to a string, the text is rendered, and only then written.
BodyField == "content"
MarkdownWrite(data) ==
  IF data.opaque THEN WriteResult("RepresenterError", FALSE, EmptyFile)
  ELSE
    LET payload == Restrict(data.fields, DOMAIN data.fields \ {BodyField})
        body == IF BodyField \in DOMAIN data.fields THEN data.fields[BodyField].s
                ELSE << >>
        frontmatter == Strip(<<DOC, NL>>)
        rendered == RStrip(<<DELIM, NL>> \o frontmatter \o <<NL, DELIM, NL, NL>> \o body)
                      \o <<NL>>
    IN WriteResult("none", TRUE, MkFile(rendered, YamlEncode(payload)))

\* The least i with s[i..i+1] = <<NL, DELIM>>, or 0
FindClose(s) ==
  LET hits == {i \in 1..(Len(s) - 1) : s[i] = NL /\ s[i + 1] = DELIM}
  IN IF hits = {} THEN 0 ELSE CHOOSE i \in hits : \A j \in hits : i <= j
\* The least i with s[i] = NL, or 0
FindNewline(s) ==
  LET hits == {i \in 1..Len(s) : s[i] = NL}
  IN IF hits = {} THEN 0 ELSE CHOOSE i \in hits : \A j \in hits : i <= j

\* _split_frontmatter: [err, meta, body]
SplitResult(err, meta, body) == [err |-> err, meta |-> meta, body |-> body]
split_frontmatter(text, doc) ==
  IF text = << >> \/ Head(text) # DELIM THEN SplitResult("none", EmptyMap, text)
  ELSE IF FindNewline(text) = 0 THEN SplitResult("IndexError", EmptyMap, << >>)
  ELSE
    LET parts == SubSeq(text, FindNewline(text) + 1, Len(text))
        at == FindClose(parts)
    IN IF at = 0 THEN SplitResult("none", EmptyMap, text)
       ELSE
         LET frontmatter_raw == SubSeq(parts, 1, at - 1)
             rest == SubSeq(parts, at + 2, Len(parts))
             body == IF rest # << >> /\ Head(rest) = NL THEN Tail(rest) ELSE rest
             meta == YamlLoad(frontmatter_raw, doc)
         IN SplitResult(meta.err, meta.data, body)

\* MarkdownFrontmatterHandler.read
MarkdownRead(file) ==
  LET sp == split_frontmatter(file.text, file.doc)
  IN IF sp.err # "none" THEN ReadResult(sp.err, EmptyMap)
     ELSE ReadResult("none", Put(sp.meta, BodyField, PyStr(sp.body)))

\* self._handler.write / self._handler.read of the Collection's handler
HandlerWrite(fmt, data) ==
  CASE fmt = "json" -> JsonWrite(data)
    [] fmt = "yaml" -> YamlWrite(data)
    [] OTHER -> MarkdownWrite(data)
HandlerRead(fmt, file) ==
  CASE fmt = "json" -> JsonRead(file)
    [] fmt = "yaml" -> YamlRead(file)
    [] OTHER -> MarkdownRead(file)
\* handler.extension, handler.extensions
Extension(fmt) ==
  CASE fmt = "json" -> ".json" [] fmt = "yaml" -> ".yaml" [] OTHER -> ".md"
Extensions(fmt) ==
  CASE fmt = "json" -> {".json"}
    [] fmt = "yaml" -> {".yaml", ".yml"}
    [] OTHER -> {".md", ".markdown"}

\* -------------------------------------------------------------------- paths
\* A path under the collection root: the file name's stem and suffix.
MkPath(stem, ext) == [stem |-> stem, ext |-> ext]
NoPath == MkPath(<< >>, "")
with_stem(p, stem) == MkPath(stem, p.ext)

\* A search that takes the first str it meets, blank or not
RECURSIVE FirstUsable_blank(_, _)
FirstUsable_blank(fields, keys) ==
  IF keys = << >> THEN << >>
  ELSE IF Head(keys) \in DOMAIN fields /\ fields[Head(keys)].tag = "str"
       THEN <<fields[Head(keys)].s>>
       ELSE FirstUsable_blank(fields, Tail(keys))

\* Collection._derive_path_for_model; uuid is the value of uuid4().hex
RECURSIVE FirstUsable(_, _)
FirstUsable(fields, keys) ==
  IF keys = << >> THEN << >>
  ELSE IF /\ Head(keys) \in DOMAIN fields
          /\ fields[Head(keys)].tag = "str"
          /\ Strip(fields[Head(keys)].s) # << >>
       THEN <<fields[Head(keys)].s>>
       ELSE FirstUsable(fields, Tail(keys))
derive_path(fmt, data, uuid) ==
  LET found == FirstUsable(data, <<"slug", "id", "name", "title">>)
      slug == IF found # << >> THEN slugify(found[1]) ELSE uuid
  IN MkPath(slug, Extension(fmt))
derive_path_for_model(fmt, v, uuid) == derive_path(fmt, model_dump(v).fields, uuid)

\* A loop that takes the derived path whether or not it exists
Disambiguate_taken(candidate, counter, files) == candidate
\* The while loop of Collection._prepare_path
RECURSIVE Disambiguate(_, _, _)
Disambiguate(candidate, counter, files) ==
  IF candidate \in files
  THEN Disambiguate(with_stem(candidate, candidate.stem \o <<"-">> \o IntStr(counter)),
                    counter + 1, files)
  ELSE candidate

\* Collection._prepare_path without an explicit path, for a record whose
\* payload is data
prepare_derived(fmt, data, uuid, files) ==
  Disambiguate(derive_path(fmt, data, uuid), 1, files)

\* Collection._prepare_path; explicit_path is NoPath for None
prepare_path(fmt, v, explicit_path, uuid, files) ==
  IF explicit_path # NoPath THEN explicit_path
  ELSE Disambiguate(derive_path_for_model(fmt, v, uuid), 1, files)

\* ------------------------------------------------------------------ formats
\* The format names and suffixes of the registries, as text
Markdown == <<"m", "a", "r", "k", "d", "o", "w", "n">>
Md == <<"m", "d">>
Json == <<"j", "s", "o", "n">>
Yaml == <<"y", "a", "m", "l">>
Yml == <<"y", "m", "l">>
Txt == <<"t", "x", "t">>
Dot(s) == <<".">> \o s

FORMAT_REGISTRY ==
  [k \in {Markdown, Md, Dot(Md), Json, Dot(Json), Yaml, Yml, Dot(Yaml), Dot(Yml)} |->
     IF k \in {Markdown, Md, Dot(Md)} THEN "markdown"
     ELSE IF k \in {Json, Dot(Json)} THEN "json"
     ELSE "yaml"]
EXTENSION_REGISTRY ==
  [k \in {Dot(Md), Dot(Markdown), Dot(Json), Dot(Yaml), Dot(Yml)} |->
     IF k \in {Dot(Md), Dot(Markdown)} THEN "markdown"
     ELSE IF k = Dot(Json) THEN "json"
     ELSE "yaml"]

\* What resolving or inferring a handler yields: the handler, or the error
Handler(fmt) == [err |-> "none", handler |-> fmt]
NoHandler(err) == [err |-> err, handler |-> ""]

\* _resolve_handler(name)
resolve_handler(name) ==
  IF str_lower(name) \in DOMAIN FORMAT_REGISTRY
  THEN Handler(FORMAT_REGISTRY[str_lower(name)])
  ELSE NoHandler("UnknownFormatError")

\* path.suffix of the file names of a directory, as text
SuffixChars(ext) ==
  CASE ext = ".md" -> Dot(Md)
    [] ext = ".MD" -> Dot(<<"M", "D">>)
    [] ext = ".markdown" -> Dot(Markdown)
    [] ext = ".json" -> Dot(Json)
    [] ext = ".yaml" -> Dot(Yaml)
    [] ext = ".yml" -> Dot(Yml)
    [] ext = ".txt" -> Dot(Txt)
    [] OTHER -> << >>

\* Collection._infer_handler: order is the files in the order glob yields
\* them, seen is seen_handlers
RECURSIVE InferLoop(_, _, _)
InferLoop(order, seen, strict) ==
  IF order = << >>
  THEN IF seen = {}
       THEN IF strict THEN NoHandler("UnknownFormatError") ELSE Handler("markdown")
       ELSE Handler(CHOOSE h \in seen : TRUE)
  ELSE IF str_lower(SuffixChars(Head(order).ext)) \notin DOMAIN EXTENSION_REGISTRY
       THEN NoHandler("UnknownFormatError")
       ELSE IF Cardinality(seen \cup {EXTENSION_REGISTRY[str_lower(SuffixChars(Head(order).ext))]}) > 1
            THEN NoHandler("InconsistentFormatError")
            ELSE InferLoop(Tail(order),
                           seen \cup {EXTENSION_REGISTRY[str_lower(SuffixChars(Head(order).ext))]},
                           strict)
\* An inference that is never strict
infer_handler_lenient(order, strict) == InferLoop(order, {}, FALSE)
infer_handler(order, strict) == InferLoop(order, {}, strict)

\* The handler Collection.__init__ sets, or the error it raises; declared is
\* FALSE when format is None
collection_init(declared, format, order) ==
  IF declared THEN resolve_handler(format) ELSE infer_handler(order, TRUE)

\* -------------------------------------------------------------------- state
VARIABLES
  fmt,      \* the format both Collections were constructed with
  fs,       \* the directory: path -> file, for the files that exist
  objVal,   \* the live record objects: identity -> field values
  cache,    \* per Collection, _model_cache: path -> object
  tracker,  \* per Collection, _path_refs: id(object) -> path
  last,     \* the last call: operation, arguments, the path it worked on
            \* (target), whether a file was there when the call began
            \* (existed), and the outcome (err, rpath, robj, rlist)
  steps,    \* the number of steps taken so far
  calls     \* the number of calls made on the second Collection so far

\* The state of a session of queries over a loaded directory
VARIABLES
  shelf,    \* the records enumeration and loading yield, in enumeration order
  lists,    \* the list objects of the pipelines: identity -> elements
  queries,  \* the CollectionQuery objects: name -> its three attributes
  qlast     \* the last builder or terminal call and its outcome

\* The state of a session that constructs a Collection over a directory and
\* adds records without a path
VARIABLES
  given,    \* the arguments: the format passed to Collection(...) (declared is
            \* FALSE for None) and the payload of the records added
  names,    \* the file names in the directory
  handler,  \* the handler of the Collection ("" while there is none)
  named     \* the last call of the session and its outcome

\* The state of a read of one file by one handler
VARIABLES
  source,   \* the handler's format and the file it is asked to read
  payload   \* what read gave: the error raised ("none" if it returned) and
            \* the value returned; err is "unread" before the call

\* The state of a session over a NestedCollection: a root of folders, each
\* with a parent metadata file and child files
VARIABLES
  pattern,  \* child_pattern, a glob of the form head*tail
  tree,     \* the root directory: entry name -> a folder and its files, or
            \* a plain file
  held,     \* the NestedRecord the caller holds (NoRecord if none)
  listed    \* the last call: operation, arguments, the root when the call
            \* began (before) and the records returned

cvars == <<fmt, fs, objVal, cache, tracker, last, steps, calls>>
qvars == <<shelf, lists, queries, qlast>>
nvars == <<given, names, handler, named>>
hvars == <<source, payload>>
tvars == <<pattern, tree, held, listed>>
vars == <<fmt, fs, objVal, cache, tracker, last, steps, calls,
          shelf, lists, queries, qlast, given, names, handler, named,
          source, payload, pattern, tree, held, listed>>

\* The records the caller constructs or edits a record to
InitValues ==
  { MkValue(<<"A">>, <<2025, 11, 9>>, <<"x">>, FALSE),
    MkValue(<<"b", " ">>, <<2024, 1, 2>>, << >>, FALSE),
    MkValue(<<"A">>, <<2025, 11, 9>>, <<"x">>, TRUE) }
\* The values uuid4().hex may take
Uuids == { <<"u", "1">> }
\* The explicit paths and file names the caller passes
CallerPaths == { MkPath(<<"a">>, Extension(fmt)) }

Outcome(op, c, obj, path, err, target, rpath, robj, rlist) ==
  [op |-> op, c |-> c, obj |-> obj, path |-> path, err |-> err,
   target |-> target, rpath |-> rpath, robj |-> robj, rlist |-> rlist,
   existed |-> FALSE]
Returned(op, c, obj, path) ==
  Outcome(op, c, obj, path, "none", NoPath, NoPath, NoObj, << >>)
Raised(op, c, obj, path, err) ==
  Outcome(op, c, obj, path, err, NoPath, NoPath, NoObj, << >>)

\* The in-memory state an operation works on
Mem(ca, tr, ov) == [cache |-> ca, tracker |-> tr, objVal |-> ov]
Now == Mem(cache, tracker, objVal)

\* id() of a newly created object: an identity no live object has
HasFree(ov) == Objs \ DOMAIN ov # {}
Fresh(ov) == CHOOSE o \in Objs \ DOMAIN ov : \A q \in Objs \ DOMAIN ov : o <= q

\* Collection._register_model (the weak reference's callback is in Release)
register_model(st, c, o, path) ==
  [st EXCEPT !.tracker[c] = Put(@, o, path)]
\* A _forget_model that leaves the entry in place
forget_model_kept(st, c, o) == st
\* Collection._forget_model
forget_model(st, c, o) == [st EXCEPT !.tracker[c] = Del(@, o)]
\* A lookup by field values: the path of any tracked record equal to o
lookup_path_by_value(st, c, o) ==
  IF o \notin DOMAIN st.objVal THEN NoPath
  ELSE IF \E q \in DOMAIN st.tracker[c] \cap DOMAIN st.objVal : st.objVal[q] = st.objVal[o]
  THEN st.tracker[c][CHOOSE q \in DOMAIN st.tracker[c] \cap DOMAIN st.objVal :
                       st.objVal[q] = st.objVal[o]]
  ELSE NoPath
\* Collection._lookup_path: NoPath for None.  An entry whose referent is gone
\* was removed by the callback when the referent went away.
lookup_path(st, c, o) ==
  IF o \in DOMAIN st.tracker[c] /\ o \in DOMAIN st.objVal THEN st.tracker[c][o]
  ELSE NoPath

\* Collection._load_model: [st, obj, err]
LoadResult(st, obj, err) == [st |-> st, obj |-> obj, err |-> err]
\* ... the new instance is registered and cached
Loaded(st, c, path, o, val) ==
  LoadResult([register_model([st EXCEPT !.objVal = Put(@, o, val)], c, o, path)
                EXCEPT !.cache[c] = Put(@, path, o)],
             o, "none")
\* ... instance = self.model.model_validate(data)
Validated(st, c, path, inst) ==
  IF ~inst.ok THEN LoadResult(st, NoObj, "ValidationError")
  ELSE IF ~HasFree(st.objVal) THEN LoadResult(st, NoObj, "bound")
  ELSE Loaded(st, c, path, Fresh(st.objVal), inst.val)
\* ... data = self._handler.read(path, body_field=self.body_field)
ReadIn(st, c, path, rd) ==
  IF rd.err # "none" THEN LoadResult(st, NoObj, rd.err)
  ELSE Validated(st, c, path, model_validate(rd.data))
\* A _load_model that returns the cached record even when forced
load_model_cached(st, c, path, force) ==
  IF path \in DOMAIN st.cache[c]
  THEN LoadResult(st, st.cache[c][path], "none")
  ELSE IF path \notin DOMAIN fs THEN LoadResult(st, NoObj, "FileNotFoundError")
  ELSE ReadIn(st, c, path, HandlerRead(fmt, fs[path]))
\* A _load_model that reads the file whether or not the path is cached
load_model_uncached(st, c, path, force) ==
  IF path \notin DOMAIN fs THEN LoadResult(st, NoObj, "FileNotFoundError")
  ELSE ReadIn(st, c, path, HandlerRead(fmt, fs[path]))
load_model(st, c, path, force) ==
  IF ~force /\ path \in DOMAIN st.cache[c]
  THEN LoadResult(st, st.cache[c][path], "none")
  ELSE IF path \notin DOMAIN fs THEN LoadResult(st, NoObj, "FileNotFoundError")
  ELSE ReadIn(st, c, path, HandlerRead(fmt, fs[path]))

\* Collection._iter_paths: the files with a recognized extension
iter_paths == {p \in DOMAIN fs : p.ext \in Extensions(fmt)}
\* The orders in which the directory may enumerate a set of paths
Orders(S) ==
  {s \in [1..Cardinality(S) -> S] : \A i, j \in 1..Cardinality(S) : s[i] = s[j] => i = j}

\* CollectionQuery.to_list with no predicate, sort or trim: each path is
\* loaded in enumeration order; a failing load ends the call.
RECURSIVE LoadAll(_, _, _, _)
RECURSIVE LoadNext(_, _, _, _)
LoadAll(st, c, order, acc) ==
  IF order = << >> THEN [st |-> st, items |-> acc, err |-> "none"]
  ELSE LoadNext(c, order, acc, load_model(st, c, Head(order), FALSE))
LoadNext(c, order, acc, r) ==
  IF r.err # "none" THEN [st |-> r.st, items |-> << >>, err |-> r.err]
  ELSE LoadAll(r.st, c, Tail(order), Append(acc, r.obj))

\* What an operation leaves behind: the directory, the memory, the outcome
Effect(files, st, out) == [fs |-> files, st |-> st, out |-> out]

\* Collection.add, from the handler's write on
AddWritten(c, o, explicit_path, target, w) ==
  IF w.err # "none"
  THEN Effect(IF w.touched THEN Put(fs, target, w.content) ELSE fs, Now,
              Outcome("add", c, o, explicit_path, w.err, target, NoPath, NoObj, << >>))
  ELSE Effect(Put(fs, target, w.content),
              [register_model(Now, c, o, target) EXCEPT !.cache[c] = Put(@, target, o)],
              Outcome("add", c, o, explicit_path, "none", target, target, NoObj, << >>))
\* Collection.add
add(c, o, explicit_path, uuid) ==
  AddWritten(c, o, explicit_path,
             prepare_path(fmt, objVal[o], explicit_path, uuid, DOMAIN fs),
             HandlerWrite(fmt, model_dump(objVal[o])))

\* An update that writes the file and leaves the cache entry as it was
UpdateWritten_stale(c, o, path, w) ==
  IF w.err # "none"
  THEN Effect(IF w.touched THEN Put(fs, path, w.content) ELSE fs, Now,
              Outcome("update", c, o, NoPath, w.err, path, NoPath, NoObj, << >>))
  ELSE Effect(Put(fs, path, w.content), Now,
              Outcome("update", c, o, NoPath, "none", path, path, NoObj, << >>))
\* Collection.update, from the handler's write on
UpdateWritten(c, o, path, w) ==
  IF w.err # "none"
  THEN Effect(IF w.touched THEN Put(fs, path, w.content) ELSE fs, Now,
              Outcome("update", c, o, NoPath, w.err, path, NoPath, NoObj, << >>))
  ELSE Effect(Put(fs, path, w.content), [Now EXCEPT !.cache[c] = Put(@, path, o)],
              Outcome("update", c, o, NoPath, "none", path, path, NoObj, << >>))
\* Collection.update, from the lookup on
UpdateAt(c, o, path) ==
  IF path = NoPath
  THEN Effect(fs, Now, Raised("update", c, o, NoPath, "MissingPathError"))
  ELSE UpdateWritten(c, o, path, HandlerWrite(fmt, model_dump(objVal[o])))
\* Collection.update
update(c, o) == UpdateAt(c, o, lookup_path(Now, c, o))

\* Collection.upsert
AsUpsert(e) == [e EXCEPT !.out.op = "upsert"]
\* An upsert that adds whether or not the record is tracked
upsert_always_add(c, o, uuid) == AsUpsert(add(c, o, NoPath, uuid))
upsert(c, o, uuid) ==
  AsUpsert(IF lookup_path(Now, c, o) = NoPath THEN add(c, o, NoPath, uuid)
           ELSE update(c, o))

\* Collection.delete of a record, from the lookup on
DeleteAt(c, o, path) ==
  IF path = NoPath
  THEN Effect(fs, Now, Raised("delete", c, o, NoPath, "MissingPathError"))
  ELSE Effect(Del(fs, path),
              [forget_model(Now, c, o) EXCEPT !.cache[c] = Del(@, path)],
              Outcome("delete", c, o, NoPath, "none", path, NoPath, NoObj, << >>))
\* Collection.delete of a record
delete(c, o) == DeleteAt(c, o, lookup_path(Now, c, o))

\* Collection.delete of a path or file name
delete_path(c, path) ==
  Effect(Del(fs, path), [Now EXCEPT !.cache[c] = Del(@, path)],
         Outcome("delete_path", c, NoObj, path, "none", path, NoPath, NoObj, << >>))

\* Collection.refresh, from the forced load on
Refreshed(c, o, path, r) ==
  Effect(fs, r.st, Outcome("refresh", c, o, NoPath, r.err, path, NoPath, r.obj, << >>))
\* Collection.refresh, from the lookup on
RefreshAt(c, o, path) ==
  IF path = NoPath
  THEN Effect(fs, Now, Raised("refresh", c, o, NoPath, "MissingPathError"))
  ELSE Refreshed(c, o, path, load_model(Now, c, path, TRUE))
\* Collection.refresh
refresh(c, o) == RefreshAt(c, o, lookup_path(Now, c, o))

\* Collection.path_for
path_for(c, o) == lookup_path(Now, c, o)

\* Collection.get, from the load on
Got(c, path, r) ==
  Effect(fs, r.st, Outcome("get", c, NoObj, path, r.err, path, NoPath, r.obj, << >>))
\* Collection.get
get(c, path) ==
  IF path \notin DOMAIN fs \/ path.ext \notin Extensions(fmt)
  THEN Effect(fs, Now, Returned("get", c, NoObj, path))
  ELSE Got(c, path, load_model(Now, c, path, FALSE))

\* Collection.to_list, from the loads on
Listed(c, r) ==
  Effect(fs, r.st,
         Outcome("to_list", c, NoObj, NoPath, r.err, NoPath, NoPath, NoObj, r.items))
\* Collection.to_list, under one enumeration order
to_list(c, order) == Listed(c, LoadAll(Now, c, order, << >>))

\* ----------------------------------------------------------- query pipeline
\* The predicates the caller filters with
Preds == {"titled_A", "dated_first"}
Holds(p, v) ==
  CASE p = "titled_A" -> v.title = <<"A">>
    [] OTHER -> v.date = <<2024, 1, 1>>
\* The arguments the caller passes to order_by, head and tail
OrderArgs == { <<"date">>, <<"-", "date">> }
TrimArgs == {-1, 0, 1, MaxRecords + 1}

\* _SortInstruction; NoSort for None
SortInstruction(field, descending) == [field |-> field, descending |-> descending]
NoSort == SortInstruction(<< >>, FALSE)
\* getattr(item, key)
KeyOf(v, field) == IF field = <<"date">> THEN v.date ELSE << >>
\* a < b for two dates
KeyLess(a, b) ==
  \/ a[1] < b[1]
  \/ a[1] = b[1] /\ a[2] < b[2]
  \/ a[1] = b[1] /\ a[2] = b[2] /\ a[3] < b[3]
\* whether key a sorts strictly before key b
SortsBefore(a, b, reverse) == IF reverse THEN KeyLess(b, a) ELSE KeyLess(a, b)

\* list.sort(key=..., reverse=...): stable in both directions.  An item is a
\* position of vals; x is placed before the first element it sorts strictly
\* before.
RECURSIVE InsertSorted(_, _, _, _, _)
InsertSorted(s, x, vals, field, reverse) ==
  IF s = << >> THEN <<x>>
  ELSE IF SortsBefore(KeyOf(vals[x], field), KeyOf(vals[Head(s)], field), reverse)
       THEN <<x>> \o s
       ELSE <<Head(s)>> \o InsertSorted(Tail(s), x, vals, field, reverse)
\* A descending sort taken as the reverse of the ascending one
RECURSIVE list_sort_reversed(_, _, _, _)
list_sort_reversed(items, vals, field, reverse) ==
  IF items = << >> THEN << >>
  ELSE IF reverse
  THEN [i \in 1..Len(items) |->
          list_sort_reversed(items, vals, field, FALSE)[Len(items) + 1 - i]]
  ELSE InsertSorted(list_sort_reversed(SubSeq(items, 1, Len(items) - 1), vals, field, FALSE),
                    items[Len(items)], vals, field, FALSE)
RECURSIVE list_sort(_, _, _, _)
list_sort(items, vals, field, reverse) ==
  IF items = << >> THEN << >>
  ELSE InsertSorted(list_sort(SubSeq(items, 1, Len(items) - 1), vals, field, reverse),
                    items[Len(items)], vals, field, reverse)

\* items = [item for item in items if predicate(item)], for each predicate
RECURSIVE ApplyPredicates(_, _, _)
ApplyPredicates(items, vals, predicates) ==
  IF predicates = << >> THEN items
  ELSE ApplyPredicates(SelectSeq(items, LAMBDA i : Holds(Head(predicates), vals[i])),
                       vals, Tail(predicates))

\* The post-sort transforms head(n) and tail(n) append
PostOp(kind, n) == [kind |-> kind, n |-> n]
\* items[:n] and items[-n:] for n >= 0
SliceHead(items, n) == SubSeq(items, 1, IF n < Len(items) THEN n ELSE Len(items))
SliceTail(items, n) ==
  IF n = 0 THEN items
  ELSE SubSeq(items, IF n < Len(items) THEN Len(items) - n + 1 ELSE 1, Len(items))
\* A tail transform without the test for n = 0
ApplyPostOp_unguarded(op, items) ==
  IF op.kind = "head" THEN SliceHead(items, op.n) ELSE SliceTail(items, op.n)
ApplyPostOp(op, items) ==
  IF op.kind = "head" THEN SliceHead(items, op.n)
  ELSE IF op.n # 0 THEN SliceTail(items, op.n) ELSE << >>
RECURSIVE ApplyPostOps(_, _)
ApplyPostOps(items, post_ops) ==
  IF post_ops = << >> THEN items
  ELSE ApplyPostOps(ApplyPostOp(Head(post_ops), items), Tail(post_ops))

\* CollectionQuery.to_list, from the loaded items on
Sorted(items, vals, sort) ==
  IF sort = NoSort THEN items
  ELSE list_sort(items, vals, sort.field, sort.descending)
\* A materialization that trims before it sorts
Materialize_trim_first(vals, predicates, sort, post_ops) ==
  Sorted(ApplyPostOps(ApplyPredicates([i \in 1..Len(vals) |-> i], vals, predicates),
                      post_ops),
         vals, sort)
Materialize(vals, predicates, sort, post_ops) ==
  ApplyPostOps(Sorted(ApplyPredicates([i \in 1..Len(vals) |-> i], vals, predicates),
                      vals, sort),
               post_ops)

\* A CollectionQuery object: its lists are referred to by identity
Query(predicates, sort, post_ops) ==
  [predicates |-> predicates, sort |-> sort, post_ops |-> post_ops]
\* The pipelines and their lists
QState(ls, qs) == [lists |-> ls, queries |-> qs]
QNow == QState(lists, queries)
\* CollectionQuery.__init__: a pipeline with two new empty lists
NewList(ls) == Len(ls) + 1
query_init(st, name) ==
  QState(st.lists \o << << >>, << >> >>,
         Put(st.queries, name, Query(NewList(st.lists), NoSort, NewList(st.lists) + 1)))

\* A _clone whose lists are the receiver's own lists
clone_shared(st, name, recv) ==
  QState(st.lists, Put(st.queries, name, st.queries[recv]))
\* CollectionQuery._clone: a new pipeline with copies of the receiver's lists
clone(st, name, recv) ==
  QState(st.lists \o <<st.lists[st.queries[recv].predicates],
                       st.lists[st.queries[recv].post_ops]>>,
         Put(st.queries, name,
             Query(NewList(st.lists), st.queries[recv].sort, NewList(st.lists) + 1)))

\* A builder's result: the pipelines after it, the error, the pipeline made
Built(st, err, made) == [st |-> st, err |-> err, made |-> made]
\* next_query._predicates.append(predicate)
WithPredicate(st, name, predicate) ==
  [st EXCEPT !.lists[st.queries[name].predicates] = Append(@, predicate)]
\* next_query._post_ops.append(...)
WithPostOp(st, name, op) ==
  [st EXCEPT !.lists[st.queries[name].post_ops] = Append(@, op)]
\* CollectionQuery.filter
query_filter(st, name, recv, predicate) ==
  Built(WithPredicate(clone(st, name, recv), name, predicate), "none", name)
\* CollectionQuery.order_by
query_order_by(st, name, recv, field) ==
  Built([clone(st, name, recv) EXCEPT
           !.queries[name].sort =
              SortInstruction(IF Head(field) = "-" THEN Tail(field) ELSE field,
                              Head(field) = "-")],
        "none", name)
\* CollectionQuery.head
query_head(st, name, recv, n) ==
  IF n < 0 THEN Built(st, "ValueError", "")
  ELSE Built(WithPostOp(clone(st, name, recv), name, PostOp("head", n)), "none", name)
\* CollectionQuery.tail
query_tail(st, name, recv, n) ==
  IF n < 0 THEN Built(st, "ValueError", "")
  ELSE Built(WithPostOp(clone(st, name, recv), name, PostOp("tail", n)), "none", name)

\* CollectionQuery.to_list over the loaded records vals
query_to_list(st, vals, recv) ==
  Materialize(vals, st.lists[st.queries[recv].predicates], st.queries[recv].sort,
              st.lists[st.queries[recv].post_ops])
\* CollectionQuery.count
query_count(st, vals, recv) == Len(query_to_list(st, vals, recv))
\* CollectionQuery.first and last: NoObj for None
FirstOf(items) == IF items = << >> THEN NoObj ELSE items[1]
LastOf(items) == IF items = << >> THEN NoObj ELSE items[Len(items)]
query_first(st, vals, recv) == FirstOf(query_to_list(st, vals, recv))
query_last(st, vals, recv) == LastOf(query_to_list(st, vals, recv))
\* Collection.exists: on a new pipeline of the Collection; predicate "" is None
exists(st, vals, predicate) ==
  IF predicate = ""
  THEN query_first(query_init(st, "q"), vals, "q") # NoObj
  ELSE query_first(query_filter(query_init(st, "q"), "f", "q", predicate).st, vals, "f")
         # NoObj

\* ------------------------------------------------------------------ actions
\* The budget of a behaviour: MaxSteps steps, of which at most MaxOtherCalls are
\* calls on the second Collection
Step == steps < MaxSteps /\ steps' = steps + 1 /\ UNCHANGED <<qvars, nvars, hvars, tvars>>
CallerStep == Step /\ UNCHANGED calls
Call(c) ==
  /\ Step
  /\ c = "B" => calls < MaxOtherCalls
  /\ calls' = IF c = "B" THEN calls + 1 ELSE calls

Idle == Returned("idle", "A", NoObj, NoPath)

\* A query call and its outcome: the receiver, the arguments (predicate,
\* field, n), the error, the pipeline made, and the list, item or truth
\* value returned
QOutcome(op, recv, predicate, field, n, err, made, rlist, ritem, rbool) ==
  [op |-> op, recv |-> recv, predicate |-> predicate, field |-> field, n |-> n,
   err |-> err, made |-> made, rlist |-> rlist, ritem |-> ritem, rbool |-> rbool]
QIdle == QOutcome("idle", "", "", << >>, 0, "none", "", << >>, NoObj, FALSE)
\* A call of a session of construction and adds: the error raised, for an
\* add the token uuid4().hex would yield, the path derived (candidate), the
\* path written, and the number of adds made so far
NOutcome(op, err, uuid, candidate, path, nth) ==
  [op |-> op, err |-> err, uuid |-> uuid, candidate |-> candidate, path |-> path,
   nth |-> nth]
NIdle == NOutcome("idle", "none", << >>, NoPath, NoPath, 0)
Given(declared, format, data) == [declared |-> declared, format |-> format, data |-> data]
NoNaming ==
  /\ given = Given(TRUE, Markdown, EmptyMap)
  /\ names = {}
  /\ handler = ""
  /\ named = NIdle

\* A glob head*tail, the default child_pattern, and no nested session
Glob(head, tail) == [head |-> head, tail |-> tail]
DefaultPattern == Glob(<< >>, Dot(Md))
NestedRecord(path, episodes) == [path |-> path, episodes |-> episodes]
NoRecord == NestedRecord(<< >>, << >>)
TOutcome(op, slug, path, explicit, before, records) ==
  [op |-> op, slug |-> slug, path |-> path, explicit |-> explicit,
   before |-> before, records |-> records]
TIdle == TOutcome("idle", << >>, NoPath, NoPath, EmptyMap, << >>)
NoNesting ==
  /\ pattern = DefaultPattern
  /\ tree = EmptyMap
  /\ held = NoRecord
  /\ listed = TIdle

\* No file read yet
NotRead == ReadResult("unread", EmptyMap)
NoReading ==
  /\ source = [format |-> "markdown", file |-> EmptyFile]
  /\ payload = NotRead

\* posts.query(): the pipeline every session starts from
BaseQuery == query_init(QState(<< >>, EmptyMap), "base")
\* No query session
NoSession ==
  /\ shelf = << >>
  /\ lists = BaseQuery.lists
  /\ queries = BaseQuery.queries
  /\ qlast = QIdle

Apply(e) ==
  /\ Call(e.out.c)
  /\ e.out.err # "bound"
  /\ Cardinality(DOMAIN e.fs) <= MaxFiles
  /\ fs' = e.fs
  /\ objVal' = e.st.objVal
  /\ cache' = e.st.cache
  /\ tracker' = e.st.tracker
  /\ last' = [e.out EXCEPT !.existed = e.out.target \in DOMAIN fs]
  /\ UNCHANGED fmt

Init ==
  /\ NoSession
  /\ NoNaming
  /\ NoReading
  /\ NoNesting
  /\ fmt \in Formats
  /\ fs = EmptyMap
  /\ \E v \in InitValues : objVal = Put(EmptyMap, 1, v)
  /\ cache = [c \in Colls |-> EmptyMap]
  /\ tracker = [c \in Colls |-> EmptyMap]
  /\ last = Idle
  /\ steps = 0
  /\ calls = 0

\* The caller constructs a record
NewRecord ==
  \E v \in InitValues :
    /\ HasFree(objVal)
    /\ objVal' = Put(objVal, Fresh(objVal), v)
    /\ last' = Idle
    /\ CallerStep
    /\ UNCHANGED <<fmt, fs, cache, tracker>>

\* The caller assigns to the fields of a record it holds
Edit ==
  \E o \in DOMAIN objVal, v \in InitValues :
    /\ v # objVal[o]
    /\ objVal' = [objVal EXCEPT ![o] = v]
    /\ last' = Idle
    /\ CallerStep
    /\ UNCHANGED <<fmt, fs, cache, tracker>>

\* The last reference to a record goes away: the callbacks registered by
\* _register_model remove its entries from every tracker.
Release ==
  \E o \in DOMAIN objVal :
    /\ \A c \in Colls : o \notin Range(cache[c])
    /\ objVal' = Del(objVal, o)
    /\ tracker' = [c \in Colls |-> Del(tracker[c], o)]
    /\ last' = Idle
    /\ CallerStep
    /\ UNCHANGED <<fmt, fs, cache>>

\* Collection.__init__ with a declared format: a new instance takes the
\* place of c
Construct ==
  \E c \in Colls :
    /\ cache' = [cache EXCEPT ![c] = EmptyMap]
    /\ tracker' = [tracker EXCEPT ![c] = EmptyMap]
    /\ last' = Idle
    /\ Call(c)
    /\ UNCHANGED <<fmt, fs, objVal>>

\* A file is removed from outside the Collections
ExternalUnlink ==
  \E p \in DOMAIN fs :
    /\ fs' = Del(fs, p)
    /\ last' = Idle
    /\ CallerStep
    /\ UNCHANGED <<fmt, objVal, cache, tracker>>

\* A file is rewritten from outside the Collections with another record
ExternalWrite ==
  \E p \in DOMAIN fs, v \in InitValues :
    /\ ~v.opaque
    /\ fs[p] # HandlerWrite(fmt, model_dump(v)).content
    /\ fs' = Put(fs, p, HandlerWrite(fmt, model_dump(v)).content)
    /\ last' = Idle
    /\ CallerStep
    /\ UNCHANGED <<fmt, objVal, cache, tracker>>

Writable(o) == Len(objVal[o].content) <= MaxBodyLen

Add ==
  \E c \in Colls, o \in DOMAIN objVal, p \in CallerPaths \cup {NoPath}, u \in Uuids :
    /\ Writable(o)
    /\ Apply(add(c, o, p, u))
Update == \E c \in Colls, o \in DOMAIN objVal : Writable(o) /\ Apply(update(c, o))
Upsert ==
  \E c \in Colls, o \in DOMAIN objVal, u \in Uuids : Writable(o) /\ Apply(upsert(c, o, u))
Delete == \E c \in Colls, o \in DOMAIN objVal : Apply(delete(c, o))
DeletePath == \E c \in Colls, p \in DOMAIN fs \cup CallerPaths : Apply(delete_path(c, p))
Refresh == \E c \in Colls, o \in DOMAIN objVal : Apply(refresh(c, o))
Get == \E c \in Colls, p \in DOMAIN fs \cup CallerPaths : Apply(get(c, p))
ToList == \E c \in Colls, order \in Orders(iter_paths) : Apply(to_list(c, order))

Next ==
  \/ NewRecord
  \/ Edit
  \/ Release
  \/ Construct
  \/ ExternalUnlink
  \/ ExternalWrite
  \/ Add
  \/ Update
  \/ Upsert
  \/ Delete
  \/ DeletePath
  \/ Refresh
  \/ Get
  \/ ToList

Spec == Init /\ [][Next]_vars

\* ------------------------------------------------- a directory others write
\* Two Collections add, update, delete and list while files are created in
\* and removed from the directory from outside.  A file created from outside
\* holds a record written in the Collections' format; its name has one of the
\* handler's extensions or another one.
ExternalPaths ==
  {MkPath(<<"b">>, e) : e \in Extensions(fmt) \cup {".txt"}}
ExternalCreate ==
  \E p \in ExternalPaths, v \in InitValues :
    /\ ~v.opaque
    /\ p \notin DOMAIN fs
    /\ Cardinality(DOMAIN fs) < MaxFiles
    /\ fs' = Put(fs, p, HandlerWrite(fmt, model_dump(v)).content)
    /\ last' = Idle
    /\ CallerStep
    /\ UNCHANGED <<fmt, objVal, cache, tracker>>

\* The directory is empty or holds one file created from outside
MirrorInit ==
  /\ NoSession
  /\ NoNaming
  /\ NoReading
  /\ NoNesting
  /\ fmt \in Formats
  /\ \/ fs = EmptyMap
     \/ \E p \in ExternalPaths, v \in InitValues :
          ~v.opaque /\ fs = Put(EmptyMap, p, HandlerWrite(fmt, model_dump(v)).content)
  /\ \E v \in InitValues : objVal = Put(EmptyMap, 1, v)
  /\ cache = [c \in Colls |-> EmptyMap]
  /\ tracker = [c \in Colls |-> EmptyMap]
  /\ last = Idle
  /\ steps = 0
  /\ calls = 0

MirrorNext ==
  \/ ExternalCreate
  \/ ExternalUnlink
  \/ Add
  \/ Update
  \/ Delete
  \/ DeletePath
  \/ ToList
MirrorSpec == MirrorInit /\ [][MirrorNext]_vars

\* ------------------------------------------------------------ query session
\* The records a directory may hold when a session starts
QueryValues ==
  { MkValue(<<"A">>, <<2024, 1, 1>>, << >>, FALSE),
    MkValue(<<"b">>, <<2024, 1, 1>>, << >>, FALSE),
    MkValue(<<"A">>, <<2024, 1, 2>>, << >>, FALSE) }
Shelves == UNION {[1..k -> QueryValues] : k \in 0..MaxRecords}
\* The names of the pipelines a session holds
PipeNames == {"base", "left", "right"}
NextName == IF "left" \in DOMAIN queries THEN "right" ELSE "left"
CanBuild == "right" \notin DOMAIN queries

QInit ==
  /\ shelf \in Shelves
  /\ lists = BaseQuery.lists
  /\ queries = BaseQuery.queries
  /\ qlast = QIdle
  /\ NoNaming
  /\ NoReading
  /\ NoNesting
  /\ fmt = "markdown"
  /\ fs = EmptyMap
  /\ objVal = EmptyMap
  /\ cache = [c \in Colls |-> EmptyMap]
  /\ tracker = [c \in Colls |-> EmptyMap]
  /\ last = Idle
  /\ steps = 0
  /\ calls = 0

\* A session builds pipelines and ends with one terminal call (a terminal
\* call changes no pipeline)
TerminalOps == {"to_list", "count", "first", "last", "exists"}
Open == qlast.op \notin TerminalOps

\* A builder call takes effect
QBuild(b, op, recv, predicate, field, n) ==
  /\ Open
  /\ b.err = "none" => CanBuild
  /\ lists' = b.st.lists
  /\ queries' = b.st.queries
  /\ qlast' = QOutcome(op, recv, predicate, field, n, b.err, b.made, << >>, NoObj, FALSE)
  /\ UNCHANGED <<shelf, cvars, nvars, hvars, tvars>>
\* A terminal call returns
QReturn(out) ==
  /\ Open
  /\ qlast' = out
  /\ UNCHANGED <<shelf, lists, queries, cvars, nvars, hvars, tvars>>

QFilter ==
  \E recv \in DOMAIN queries, p \in Preds :
    QBuild(query_filter(QNow, NextName, recv, p), "filter", recv, p, << >>, 0)
QOrderBy ==
  \E recv \in DOMAIN queries, f \in OrderArgs :
    QBuild(query_order_by(QNow, NextName, recv, f), "order_by", recv, "", f, 0)
QHead ==
  \E recv \in DOMAIN queries, n \in TrimArgs :
    QBuild(query_head(QNow, NextName, recv, n), "head", recv, "", << >>, n)
QTail ==
  \E recv \in DOMAIN queries, n \in TrimArgs :
    QBuild(query_tail(QNow, NextName, recv, n), "tail", recv, "", << >>, n)
QToList ==
  \E recv \in DOMAIN queries :
    QReturn(QOutcome("to_list", recv, "", << >>, 0, "none", "",
                     query_to_list(QNow, shelf, recv), NoObj, FALSE))
QCount ==
  \E recv \in DOMAIN queries :
    QReturn(QOutcome("count", recv, "", << >>, 0, "none", "",
                     << >>, query_count(QNow, shelf, recv), FALSE))
QFirst ==
  \E recv \in DOMAIN queries :
    QReturn(QOutcome("first", recv, "", << >>, 0, "none", "",
                     << >>, query_first(QNow, shelf, recv), FALSE))
QLast ==
  \E recv \in DOMAIN queries :
    QReturn(QOutcome("last", recv, "", << >>, 0, "none", "",
                     << >>, query_last(QNow, shelf, recv), FALSE))
\* posts.exists(predicate) on the Collection
QExists ==
  \E p \in Preds \cup {""} :
    QReturn(QOutcome("exists", "collection", p, << >>, 0, "none", "",
                     << >>, NoObj, exists(QNow, shelf, p)))
\* q.exists(predicate) on a pipeline: CollectionQuery defines no exists
QExistsOnQuery ==
  \E recv \in DOMAIN queries, p \in Preds \cup {""} :
    QReturn(QOutcome("exists", recv, p, << >>, 0, "AttributeError", "",
                     << >>, NoObj, FALSE))

QNext ==
  \/ QFilter
  \/ QOrderBy
  \/ QHead
  \/ QTail
  \/ QToList
  \/ QCount
  \/ QFirst
  \/ QLast
  \/ QExists
  \/ QExistsOnQuery

QuerySpec == QInit /\ [][QNext]_vars

\* ------------------------------------------------ construction and naming
\* A session constructs a Collection over a directory and then adds new,
\* untracked records of one payload without a path.  The records are ones the
\* handler can encode; the contents of the files and the cache and tracker
\* entries of the records are not part of the session's state.
MaxEntries == 3
MaxAdds == 3

\* The values a naming field may hold: none (the field is absent), an int, a
\* blank string, or a string
Absent == [tag |-> "absent", s |-> << >>, d |-> << >>]
NamingFields == {"slug", "id", "name", "title"}
FieldTexts(k) ==
  CASE k = "slug" -> { <<"x">> }
    [] k = "id" -> { <<"1">> }
    [] k = "name" -> { <<" ", "A", "!", "!", "b", "-">> }
    [] OTHER -> { <<"T">>, <<"!">>, << >> }
FieldValues(k) == {Absent, PyInt(7), PyStr(<<" ">>)} \cup {PyStr(t) : t \in FieldTexts(k)}
Payloads ==
  { [k \in {x \in NamingFields : f[x] # Absent} |-> f[k]] :
      f \in {g \in [NamingFields -> UNION {FieldValues(k) : k \in NamingFields}] :
               \A k \in NamingFields : g[k] \in FieldValues(k)} }
TitledA == [title |-> PyStr(<<"A">>)]

\* The format names passed to Collection(...)
str_upper(s) == [i \in 1..Len(s) |->
                   IF \E j \in 1..26 : LowerChars[j] = s[i]
                   THEN UpperChars[CHOOSE j \in 1..26 : LowerChars[j] = s[i]]
                   ELSE s[i]]
Cases(s) == {s, str_upper(s), str_upper(SubSeq(s, 1, 1)) \o SubSeq(s, 2, Len(s))}
FormatNames ==
  UNION {{c, Dot(c)} : c \in UNION {Cases(b) : b \in {Markdown, Md, Json, Yaml, Yml}}}
    \cup {<< >>, Txt, Dot(Txt), <<".">>, Dot(Dot(Md)), Md \o <<" ">>}

\* The directories a Collection is constructed over
DirEntries ==
  {MkPath(<<"a">>, e) : e \in {".md", ".MD", ".markdown", ".json", ".yaml", ".yml", ".txt", ""}}
Directories == {d \in SUBSET DirEntries : Cardinality(d) <= MaxEntries}
\* The values uuid4().hex may take in a session
NUuids == {<<"u">> \o IntStr(i) : i \in 1..MaxAdds}

NInit ==
  /\ \/ /\ given \in {Given(TRUE, f, d) : f \in {Md, Json, Yaml}, d \in Payloads}
        /\ names = {}
     \/ /\ given \in {Given(TRUE, f, TitledA) : f \in FormatNames}
                       \cup {Given(FALSE, << >>, TitledA)}
        /\ names \in Directories
  /\ handler = ""
  /\ named = NIdle
  /\ NoSession
  /\ NoReading
  /\ NoNesting
  /\ fmt = "markdown"
  /\ fs = EmptyMap
  /\ objVal = EmptyMap
  /\ cache = [c \in Colls |-> EmptyMap]
  /\ tracker = [c \in Colls |-> EmptyMap]
  /\ last = Idle
  /\ steps = 0
  /\ calls = 0

\* Collection(model, path, format=...): glob yields the files in any order
NConstruct ==
  /\ named.op = "idle"
  /\ \E order \in Orders(names) :
       LET r == collection_init(given.declared, given.format, order)
       IN /\ handler' = r.handler
          /\ named' = NOutcome("init", r.err, << >>, NoPath, NoPath, 0)
  /\ UNCHANGED <<given, names, cvars, qvars, hvars, tvars>>

\* posts.add(record) of a new record whose payload is given.data
NAdd ==
  /\ handler # ""
  /\ named.nth < MaxAdds
  /\ \E uuid \in NUuids :
       /\ MkPath(uuid, Extension(handler)) \notin names
       /\ names' = names \cup {prepare_derived(handler, given.data, uuid, names)}
       /\ named' = NOutcome("add", "none", uuid, derive_path(handler, given.data, uuid),
                            prepare_derived(handler, given.data, uuid, names),
                            named.nth + 1)
  /\ UNCHANGED <<given, handler, cvars, qvars, hvars, tvars>>

NNext == NConstruct \/ NAdd
NamingSpec == NInit /\ [][NNext]_vars

\* ------------------------------------------------------ one read of one file
\* A handler reads one file.  The file holds a document (a mapping the codec
\* wrote, a document that is not a mapping, nothing, or the word x), alone
\* or as the frontmatter of a markdown file with or without a body.
Documents == PlainDocs \cup {<<DOC>>, << >>, <<"x">>}
HandlerTexts ==
  {d : d \in Documents} \cup {d \o <<NL>> : d \in Documents}
    \cup {<<DELIM, NL>> \o d \o <<NL, DELIM, NL>> \o b :
            d \in Documents, b \in {<< >>, <<"x">>}}
HandlerFiles ==
  {MkFile(t, HandlerWrite(f, model_dump(v)).content.doc) :
     t \in HandlerTexts, f \in Formats, v \in {w \in InitValues : ~w.opaque}}

HInit ==
  /\ source \in [format : Formats, file : HandlerFiles]
  /\ payload = NotRead
  /\ NoSession
  /\ NoNaming
  /\ NoNesting
  /\ fmt = "markdown"
  /\ fs = EmptyMap
  /\ objVal = EmptyMap
  /\ cache = [c \in Colls |-> EmptyMap]
  /\ tracker = [c \in Colls |-> EmptyMap]
  /\ last = Idle
  /\ steps = 0
  /\ calls = 0

\* handler.read(path)
ReadFile ==
  /\ payload = NotRead
  /\ payload' = HandlerRead(source.format, source.file)
  /\ UNCHANGED <<source, cvars, qvars, nvars, tvars>>

HNext == ReadFile
HandlerSpec == HInit /\ [][HNext]_vars

\* --------------------------------------------------------- NestedCollection
\* A NestedCollection as the tests construct it: parent_filename info.yml read
\* by the yaml handler, children read by the markdown handler.  Every file
\* holds a valid record of its model; a record is known by its file.
MaxFolderFiles == 3
ParentFile == MkPath(<<"i", "n", "f", "o">>, ".yml")
ChildFormat == "markdown"

\* ord(ch) for the characters of names, and the order of str
CodePoints == <<"-", ".">> \o DigitChars \o UpperChars \o LowerChars
ord(ch) == CHOOSE i \in 1..Len(CodePoints) : CodePoints[i] = ch
RECURSIVE str_less(_, _)
str_less(a, b) ==
  IF b = << >> THEN FALSE
  ELSE IF a = << >> THEN TRUE
  ELSE IF Head(a) = Head(b) THEN str_less(Tail(a), Tail(b))
  ELSE ord(Head(a)) < ord(Head(b))

\* path.name
path_name(p) == p.stem \o SuffixChars(p.ext)
\* path.match(pattern) for a pattern head*tail: the name begins with head and
\* ends with tail
path_match(name, glob) ==
  /\ Len(name) >= Len(glob.head) + Len(glob.tail)
  /\ SubSeq(name, 1, Len(glob.head)) = glob.head
  /\ SubSeq(name, Len(name) - Len(glob.tail) + 1, Len(name)) = glob.tail

\* An entry of the root: a folder with its files, or a plain file
Folder(files) == [dir |-> TRUE, files |-> files]
PlainFile == [dir |-> FALSE, files |-> {}]

\* NestedCollection._iter_folders
iter_folders(tr) == {n \in DOMAIN tr : tr[n].dir}
\* sorted(self._iter_folders())
sorted_folders(S) ==
  CHOOSE s \in Orders(S) : \A i \in 1..(Len(s) - 1) : str_less(s[i], s[i + 1])
\* NestedCollection._matches_child_pattern
matches_child_pattern(path, glob) == path_match(path_name(path), glob)
\* A sort key that leaves the suffix out
sort_key_stem(path) == path.stem
\* NestedCollection._sort_key
sort_key(path) == path_name(path)
\* episodes.sort(key=...): the file names of a folder are distinct
sort_episodes(S) ==
  CHOOSE s \in Orders(S) :
    \A i \in 1..(Len(s) - 1) : str_less(sort_key(s[i]), sort_key(s[i + 1]))
\* NestedCollection._load_folder
load_folder(tr, glob, folder) ==
  IF folder \notin DOMAIN tr \/ ParentFile \notin tr[folder].files THEN NoRecord
  ELSE LET loaded == {p \in tr[folder].files : p.ext \in Extensions(ChildFormat)}
           episodes == {p \in loaded : matches_child_pattern(p, glob)}
       IN NestedRecord(folder, sort_episodes(episodes))
Found(record) == record # NoRecord
\* NestedCollection.list / __iter__
nested_list(tr, glob) ==
  LET folders == sorted_folders(iter_folders(tr))
  IN SelectSeq([i \in 1..Len(folders) |-> load_folder(tr, glob, folders[i])], Found)
\* NestedCollection.get
nested_get(tr, glob, slug) ==
  IF slug \notin DOMAIN tr \/ ~tr[slug].dir THEN NoRecord
  ELSE load_folder(tr, glob, slug)
\* NestedCollection.refresh
nested_refresh(tr, glob, record) == load_folder(tr, glob, record.path)

\* The names of root entries, the files a folder starts with, the child
\* patterns, and the paths a caller passes to add
EntryNames == {<<"a">>, <<"B">>}
StartFiles ==
  { {}, {ParentFile}, {ParentFile, MkPath(<<"e">>, ".md")},
    {ParentFile, MkPath(<<"e">>, ".md"), MkPath(<<"x">>, ".markdown")} }
Entries == {PlainFile} \cup {Folder(f) : f \in StartFiles}
Roots == UNION {[present -> Entries] : present \in SUBSET EntryNames}
Patterns == {DefaultPattern, Glob(<<"e">>, Dot(Md))}
Episodes ==
  {MkValue(<<"E">>, <<2024, 3, 5>>, <<"x">>, FALSE),
   MkValue(<<"x">>, <<2024, 3, 5>>, << >>, FALSE)}
EpisodePaths == {NoPath, MkPath(<<"e">>, ".md"), MkPath(<<"x">>, ".markdown")}

TInit ==
  /\ pattern \in Patterns
  /\ tree \in Roots
  /\ held = NoRecord
  /\ listed = TIdle
  /\ NoReading
  /\ NoSession
  /\ NoNaming
  /\ fmt = "markdown"
  /\ fs = EmptyMap
  /\ objVal = EmptyMap
  /\ cache = [c \in Colls |-> EmptyMap]
  /\ tracker = [c \in Colls |-> EmptyMap]
  /\ last = Idle
  /\ steps = 0
  /\ calls = 0

\* shows.list()
NestedList ==
  /\ listed' = TOutcome("list", << >>, NoPath, NoPath, tree,
                        nested_list(tree, pattern))
  /\ UNCHANGED <<pattern, tree, held, cvars, qvars, nvars, hvars>>

\* record = shows.get(slug)
NestedGet ==
  \E slug \in EntryNames :
    /\ listed' = TOutcome("get", slug, NoPath, NoPath, tree,
                          SelectSeq(<<nested_get(tree, pattern, slug)>>, Found))
    /\ held' = nested_get(tree, pattern, slug)
    /\ UNCHANGED <<pattern, tree, cvars, qvars, nvars, hvars>>

\* record.episodes_collection.add(episode, path): Collection.add over the
\* folder of the record held
NestedAdd ==
  /\ held # NoRecord
  /\ \E v \in Episodes, explicit_path \in EpisodePaths, uuid \in Uuids :
       LET files == tree[held.path].files
           target == prepare_path(ChildFormat, v, explicit_path, uuid, files)
       IN /\ Cardinality(files \cup {target}) <= MaxFolderFiles
          /\ tree' = [tree EXCEPT ![held.path].files = @ \cup {target}]
          /\ listed' = TOutcome("add", held.path, target, explicit_path, tree,
                                << >>)
  /\ UNCHANGED <<pattern, held, cvars, qvars, nvars, hvars>>

\* shows.refresh(record)
NestedRefresh ==
  /\ held # NoRecord
  /\ listed' = TOutcome("refresh", held.path, NoPath, NoPath, tree,
                        SelectSeq(<<nested_refresh(tree, pattern, held)>>, Found))
  /\ UNCHANGED <<pattern, tree, held, cvars, qvars, nvars, hvars>>

TNext == NestedList \/ NestedGet \/ NestedAdd \/ NestedRefresh
NestedSpec == TInit /\ [][TNext]_vars

\* ------------------------------------------------------------ properties
\* What the last step was: a call of op on Collection c for record o that
\* returned normally
Succeeded(l, op, c, o) == l.op = op /\ l.c = c /\ l.obj = o /\ l.err = "none"
\* The record is tracked by the Collection: path_for(record) is not None
Tracked(c, o) == path_for(c, o) # NoPath

\* C1: two add calls of the same record on the same Collection, without an
\* explicit path, return the same path, and the second one leaves the set of
\* files (hence count()) as the first one left it.
C1_AddIdempotent ==
  [][\A c \in Colls, o \in Objs :
       (/\ Succeeded(last, "add", c, o) /\ last.path = NoPath
        /\ Succeeded(last', "add", c, o) /\ last'.path = NoPath)
       => (last'.rpath = last.rpath /\ DOMAIN fs' = DOMAIN fs)]_vars

\* C2: when Collection A has written a record and holds it for its file, the
\* add of that record to a fresh Collection B on the same directory leaves the
\* set of files unchanged.
C2_ReAddLoadedNoDuplicate ==
  [][\A o \in Objs, p \in DOMAIN fs :
       (/\ p \in DOMAIN cache["A"] /\ cache["A"][p] = o
        /\ lookup_path(Now, "A", o) = p
        /\ cache["B"] = EmptyMap /\ tracker["B"] = EmptyMap
        /\ Succeeded(last', "add", "B", o) /\ last'.path = NoPath)
       => DOMAIN fs' = DOMAIN fs]_vars

\* C3: for every Collection, a cached record is tracked at the path it is
\* cached for, and a tracked live record is the cache entry of its path.
C3_CacheTrackerConsistent ==
  \A c \in Colls :
    /\ \A p \in DOMAIN cache[c] : lookup_path(Now, c, cache[c][p]) = p
    /\ \A o \in DOMAIN objVal :
         Tracked(c, o) =>
           /\ path_for(c, o) \in DOMAIN cache[c]
           /\ cache[c][path_for(c, o)] = o

\* C4: a record written by add and read back from its file (refresh) has the
\* field values it was written with, in each of the three formats.
C4_RoundTrip ==
  [][\A c \in Colls, o \in Objs :
       (Succeeded(last, "add", c, o) /\ Succeeded(last', "refresh", c, o))
       => objVal'[last'.robj] = objVal[o]]_vars

\* C5: update, refresh and delete of a record that the Collection does not
\* track, or that the preceding call deleted from the Collection (by record
\* or by the path it is tracked at), raise MissingPathError and leave the
\* files, the cache and the tracker as they were.
C5_UntrackedFailsCleanly ==
  [][\A c \in Colls, o \in DOMAIN objVal :
       (/\ last'.op \in {"update", "refresh", "delete"}
        /\ last'.c = c /\ last'.obj = o
        /\ \/ ~Tracked(c, o)
           \/ /\ last.op \in {"delete", "delete_path"} /\ last.c = c
              /\ last.err = "none" /\ last.target = path_for(c, o))
       => (/\ last'.err = "MissingPathError"
           /\ fs' = fs /\ cache' = cache /\ tracker' = tracker)]_vars

\* C6: an add or update that fails in the handler's write leaves every file,
\* the cache and the tracker as they were before the call.
C6_WriteFailureAtomic ==
  [][(last'.op \in {"add", "update"} /\ last'.err \notin {"none", "MissingPathError"})
       => (fs' = fs /\ cache' = cache /\ tracker' = tracker)]_vars

\* C7: delete(r) of a tracked record returns normally whether or not the file
\* is still there; after it the file does not exist, the cache has no entry
\* for the path and path_for(r) is None.  An untracked record stays untracked
\* until add or upsert registers it, and update, refresh and delete of an
\* untracked record raise MissingPathError.
C7_DeleteByRecord ==
  [][\A c \in Colls, o \in DOMAIN objVal :
       /\ (Tracked(c, o) /\ last'.op = "delete" /\ last'.c = c /\ last'.obj = o)
          => /\ last'.err = "none"
             /\ path_for(c, o) \notin DOMAIN fs'
             /\ path_for(c, o) \notin DOMAIN cache'[c]
             /\ ~Tracked(c, o)'
       /\ (/\ ~Tracked(c, o) /\ o \in DOMAIN objVal'
           /\ ~(last'.op \in {"add", "upsert"} /\ last'.c = c /\ last'.obj = o))
          => ~Tracked(c, o)'
       /\ (/\ ~Tracked(c, o) /\ last'.op \in {"update", "refresh", "delete"}
           /\ last'.c = c /\ last'.obj = o)
          => last'.err = "MissingPathError"]_vars
\* delete(r) has returned for a tracked record whose file was already gone
C7_Witness ==
  /\ last.op = "delete" /\ last.err = "none" /\ ~last.existed
  /\ last.obj \in DOMAIN objVal /\ ~Tracked(last.c, last.obj)
  /\ last.target \notin DOMAIN cache[last.c] /\ last.target \notin DOMAIN fs

\* C8: delete(p) of a path whose file the Collection holds as record r leaves
\* no file at p, no cache entry for p and no tracker entry for r, and an
\* update(r) that follows raises MissingPathError.
C8_DeleteByPathUntracks ==
  [][\A c \in Colls, o \in DOMAIN objVal :
       /\ (/\ last'.op = "delete_path" /\ last'.c = c
           /\ last'.path \in DOMAIN cache[c] /\ cache[c][last'.path] = o
           /\ path_for(c, o) = last'.path)
          => /\ last'.path \notin DOMAIN fs'
             /\ last'.path \notin DOMAIN cache'[c]
             /\ o \notin DOMAIN tracker'[c]
       /\ (/\ last.op = "delete_path" /\ last.c = c /\ path_for(c, o) = last.path
           /\ last'.op = "update" /\ last'.c = c /\ last'.obj = o)
          => (last'.err = "MissingPathError" /\ fs' = fs)]_vars

\* What update(r) of a record tracked at path leaves behind when it returns:
\* the tracked path is returned, every other file is as it was, the files
\* that did not exist before are among created, the cache entry of the path
\* is r, the next load of the path by the Collection yields r, and r has the
\* field values it had.
RewrittenInPlace(c, o, path, created) ==
  /\ last'.rpath = path
  /\ \A q \in (DOMAIN fs \cup DOMAIN fs') \ {path} :
       q \in DOMAIN fs /\ q \in DOMAIN fs' /\ fs'[q] = fs[q]
  /\ DOMAIN fs' \ DOMAIN fs \subseteq created
  /\ path \in DOMAIN cache'[c] /\ cache'[c][path] = o
  /\ load_model(Now, c, path, FALSE)'.obj = o
  /\ objVal'[o] = objVal[o]

SameEffect(e) ==
  /\ fs' = e.fs
  /\ Mem(cache, tracker, objVal)' = e.st
  /\ last'.err = e.out.err /\ last'.rpath = e.out.rpath /\ last'.target = e.out.target
\* What every upsert(r) does: no MissingPathError; the effect and result of
\* update(r) when r is tracked and of add(r) when it is not; once it has
\* returned, r is tracked and a file exists at path_for(r).
UpsertDispatch(c, o) ==
  /\ last'.err # "MissingPathError"
  /\ Tracked(c, o) => SameEffect(update(c, o))
  /\ ~Tracked(c, o) => \E u \in Uuids : SameEffect(add(c, o, NoPath, u))
  /\ last'.err = "none" => (Tracked(c, o)' /\ path_for(c, o)' \in DOMAIN fs')

\* C10 as stated: upsert(r) dispatches to update(r) or add(r), and for a
\* tracked record it creates no new file.
C10_UpsertNoNewFile ==
  [][\A c \in Colls, o \in DOMAIN objVal :
       (last'.op = "upsert" /\ last'.c = c /\ last'.obj = o)
       => /\ UpsertDispatch(c, o)
          /\ (Tracked(c, o) /\ last'.err = "none") => DOMAIN fs' = DOMAIN fs]_vars
\* C10: upsert(r) dispatches to update(r) or add(r), and for a tracked record
\* it creates no file at any path other than the tracked one.
C10_UpsertDispatch ==
  [][\A c \in Colls, o \in DOMAIN objVal :
       (last'.op = "upsert" /\ last'.c = c /\ last'.obj = o)
       => /\ UpsertDispatch(c, o)
          /\ (Tracked(c, o) /\ last'.err = "none")
             => (last'.rpath = path_for(c, o)
                 /\ DOMAIN fs' \subseteq DOMAIN fs \cup {path_for(c, o)})]_vars
\* upsert(r) has returned for a record that was tracked: a second object is
\* tracked at the path (a refresh came before), so r was not new to the
\* Collection, and the returned path is r's tracked path with its file
C10_Witness ==
  /\ last.op = "upsert" /\ last.err = "none" /\ last.existed
  /\ path_for(last.c, last.obj) = last.rpath /\ last.rpath \in DOMAIN fs
  /\ \E q \in DOMAIN objVal : q # last.obj /\ path_for(last.c, q) = last.rpath

\* The record that reading and validating the file at path yields now
OnDisk(path) == model_validate(HandlerRead(fmt, fs[path]).data).val
Readable(path) ==
  /\ path \in DOMAIN fs
  /\ HandlerRead(fmt, fs[path]).err = "none"
  /\ model_validate(HandlerRead(fmt, fs[path]).data).ok

\* C11: refresh(r) of a tracked record, when it returns, has read the file:
\* it returns a new object, distinct from r, that holds what the file holds
\* now; r keeps its field values; the new object and r are both tracked at the
\* path; no file changes.
C11_RefreshRereads ==
  [][\A c \in Colls, o \in DOMAIN objVal :
       (Tracked(c, o) /\ Succeeded(last', "refresh", c, o))
       => /\ last'.robj \notin DOMAIN objVal /\ last'.robj \in DOMAIN objVal'
          /\ objVal'[last'.robj] = OnDisk(path_for(c, o))
          /\ objVal'[o] = objVal[o]
          /\ lookup_path(Now', c, last'.robj) = path_for(c, o)
          /\ path_for(c, o)' = path_for(c, o)
          /\ fs' = fs]_vars
\* refresh(r) has returned an object whose title is not r's: the file and r
\* had diverged, and both objects are tracked at the path
C11_Witness ==
  /\ last.op = "refresh" /\ last.err = "none"
  /\ last.robj \in DOMAIN objVal /\ last.obj \in DOMAIN objVal
  /\ objVal[last.robj].title # objVal[last.obj].title
  /\ path_for(last.c, last.robj) = last.target
  /\ path_for(last.c, last.obj) = last.target

PredicatesOf(name) == lists[queries[name].predicates]
PostOpsOf(name) == lists[queries[name].post_ops]
\* The records that satisfy every predicate of a list
Passing(predicates) ==
  {i \in 1..Len(shelf) : \A k \in 1..Len(predicates) : Holds(predicates[k], shelf[i])}
\* R holds its items in enumeration order when there is no sort instruction;
\* otherwise no item sorts strictly before an earlier one, and items with
\* equal keys are in enumeration order
StablySorted(R, sort) ==
  \A j, k \in 1..Len(R) :
    j < k =>
      IF sort = NoSort THEN R[j] < R[k]
      ELSE /\ ~SortsBefore(KeyOf(shelf[R[k]], sort.field), KeyOf(shelf[R[j]], sort.field),
                           sort.descending)
           /\ KeyOf(shelf[R[j]], sort.field) = KeyOf(shelf[R[k]], sort.field)
              => R[j] < R[k]

\* C13: to_list of a pipeline of predicates and a sort instruction returns
\* exactly the enumerated records that satisfy every predicate, stable-sorted
\* by the field in the direction order_by was given (enumeration order when
\* there is no sort); records with equal keys keep their enumeration order in
\* both directions.
C13_FilterThenStableSort ==
  /\ (qlast.op = "to_list" /\ PostOpsOf(qlast.recv) = << >>)
     => /\ {qlast.rlist[j] : j \in 1..Len(qlast.rlist)} = Passing(PredicatesOf(qlast.recv))
        /\ Len(qlast.rlist) = Cardinality(Passing(PredicatesOf(qlast.recv)))
        /\ StablySorted(qlast.rlist, queries[qlast.recv].sort)
  /\ (qlast.op = "order_by")
     => /\ queries[qlast.made].sort.descending = (Head(qlast.field) = "-")
        /\ queries[qlast.made].sort.field = <<"date">>
\* to_list has returned two records with equal dates from a pipeline with a
\* predicate and a descending sort
C13_Witness ==
  /\ qlast.op = "to_list" /\ Len(qlast.rlist) = 2
  /\ Len(PredicatesOf(qlast.recv)) = 1 /\ PostOpsOf(qlast.recv) = << >>
  /\ queries[qlast.recv].sort.descending
  /\ shelf[qlast.rlist[1]].date = shelf[qlast.rlist[2]].date

\* C14: a builder call leaves every existing pipeline with the attributes,
\* list contents and result it had; when it returns it has made one new
\* pipeline whose lists are no other pipeline's lists; when it fails (n < 0)
\* nothing changes.
C14_BuildersDoNotMutate ==
  [][qlast'.op \in {"filter", "order_by", "head", "tail"}
       => /\ \A name \in DOMAIN queries :
               /\ name \in DOMAIN queries' /\ queries'[name] = queries[name]
               /\ lists'[queries[name].predicates] = lists[queries[name].predicates]
               /\ lists'[queries[name].post_ops] = lists[queries[name].post_ops]
               /\ query_to_list(QNow, shelf, name)' = query_to_list(QNow, shelf, name)
          /\ qlast'.err = "none"
             => /\ qlast'.made \notin DOMAIN queries
                /\ DOMAIN queries' = DOMAIN queries \cup {qlast'.made}
                /\ \A name \in DOMAIN queries :
                     {queries'[qlast'.made].predicates, queries'[qlast'.made].post_ops}
                       \cap {queries[name].predicates, queries[name].post_ops} = {}
          /\ qlast'.err # "none"
             => (qlast'.n < 0 /\ UNCHANGED <<lists, queries>>)]_vars
\* two pipelines forked from the base hold different predicates while the
\* base still holds none
C14_Witness ==
  /\ qlast.op = "filter" /\ qlast.recv = "base" /\ qlast.made = "right"
  /\ PredicatesOf("base") = << >>
  /\ Len(PredicatesOf("left")) = 1 /\ Len(PredicatesOf("right")) = 1
  /\ PredicatesOf("left") # PredicatesOf("right")

\* What head(n) or tail(n), n >= 0, makes (R) of the receiver's sequence S
Trimmed(kind, n, S, R) ==
  /\ n = 0 => R = << >>
  /\ (0 < n /\ n <= Len(S))
     => R = IF kind = "head" THEN SubSeq(S, 1, n) ELSE SubSeq(S, Len(S) - n + 1, Len(S))
  /\ n > Len(S) => R = S

\* C15: head(n) and tail(n) with n < 0 fail with ValueError and make no
\* pipeline; with n >= 0 the pipeline made yields nothing for n = 0, the first
\* (head) or last (tail) n elements of the receiver's sequence in its order
\* for 0 < n <= L, and the whole sequence for n > L.
C15_HeadTailBoundaries ==
  [][qlast'.op \in {"head", "tail"}
       => IF qlast'.n < 0
          THEN qlast'.err = "ValueError" /\ qlast'.made = "" /\ UNCHANGED <<lists, queries>>
          ELSE /\ qlast'.err = "none"
               /\ Trimmed(qlast'.op, qlast'.n, query_to_list(QNow, shelf, qlast'.recv),
                          query_to_list(QNow', shelf, qlast'.made))]_vars
\* tail(1) of a pipeline that yields two records has made a pipeline that
\* yields the second of them
C15_Witness ==
  /\ qlast.op = "tail" /\ qlast.n = 1 /\ qlast.err = "none"
  /\ Len(query_to_list(QNow, shelf, qlast.recv)) = 2
  /\ query_to_list(QNow, shelf, qlast.made) = <<query_to_list(QNow, shelf, qlast.recv)[2]>>

\* The sequence a receiver yields with one more predicate ("" for none); the
\* Collection is the pipeline with no stage
WithFilter(predicates, predicate) ==
  IF predicate = "" THEN predicates ELSE Append(predicates, predicate)
FilteredFurther(recv, predicate) ==
  IF recv = "collection" THEN Materialize(shelf, WithFilter(<< >>, predicate), NoSort, << >>)
  ELSE Materialize(shelf, WithFilter(PredicatesOf(recv), predicate),
                   queries[recv].sort, PostOpsOf(recv))

\* C16: on every pipeline, count() is the length of to_list(), first() and
\* last() are its first and last element (None when it is empty), and
\* exists(pred) returns whether the sequence materialized with pred added as
\* a filter is non-empty.
C16_TerminalsAgree ==
  /\ qlast.op = "count" => qlast.ritem = Len(query_to_list(QNow, shelf, qlast.recv))
  /\ qlast.op = "first" => qlast.ritem = FirstOf(query_to_list(QNow, shelf, qlast.recv))
  /\ qlast.op = "last" => qlast.ritem = LastOf(query_to_list(QNow, shelf, qlast.recv))
  /\ qlast.op = "exists"
     => /\ qlast.err = "none"
        /\ qlast.rbool = (FilteredFurther(qlast.recv, qlast.predicate) # << >>)

\* A field qualifies when it is present and holds a string with a character
\* that is not whitespace
Qualifies(data, k) ==
  /\ k \in DOMAIN data
  /\ data[k].tag = "str"
  /\ \E i \in 1..Len(data[k].s) : ~IsSpace(data[k].s[i])
Priority == <<"slug", "id", "name", "title">>
Rank(k) == CHOOSE i \in 1..Len(Priority) : Priority[i] = k
Qualifying(data) == {k \in NamingFields : Qualifies(data, k)}
FirstQualifying(data) ==
  CHOOSE k \in Qualifying(data) : \A j \in Qualifying(data) : Rank(k) <= Rank(j)
\* The maximal runs of [a-z0-9] of a text, cur being the run in progress
RECURSIVE WordsOf(_, _)
WordsOf(s, cur) ==
  IF s = << >> THEN (IF cur = << >> THEN << >> ELSE <<cur>>)
  ELSE IF IsSlugChar(Head(s)) THEN WordsOf(Tail(s), Append(cur, Head(s)))
  ELSE (IF cur = << >> THEN << >> ELSE <<cur>>) \o WordsOf(Tail(s), << >>)
RECURSIVE Hyphenated(_)
Hyphenated(W) == IF Len(W) = 1 THEN W[1] ELSE W[1] \o <<"-">> \o Hyphenated(Tail(W))
\* The slug of a text: its lowercased runs of letters and digits joined by
\* single hyphens, "item" when there is none
ExpectedSlug(text) ==
  IF WordsOf(str_lower(text), << >>) = << >> THEN <<"i", "t", "e", "m">>
  ELSE Hyphenated(WordsOf(str_lower(text), << >>))
WellFormedSlug(s) ==
  /\ s # << >>
  /\ \A i \in 1..Len(s) : s[i] \in Range(LowerChars) \cup Range(DigitChars) \cup {"-"}
  /\ s[1] # "-" /\ s[Len(s)] # "-"
  /\ \A i \in 1..(Len(s) - 1) : ~(s[i] = "-" /\ s[i + 1] = "-")

\* C17: the path add derives for a record has as stem the slug of the first
\* of slug, id, name, title that holds a string with a non-whitespace
\* character (absent, non-string and blank fields are skipped, a later field
\* is not used when an earlier one qualifies); the slug is lowercase, made
\* of [a-z0-9] and single hyphens, without leading or trailing hyphen, and
\* "item" when nothing is left; with no qualifying field the stem is the
\* random token; the extension is the handler's; the file written is the
\* derived path when that is free, and it exists when add returns.
C17_DerivationPriority ==
  [][named'.op = "add"
       => /\ named'.candidate.ext = Extension(handler)
          /\ IF Qualifying(given.data) = {}
             THEN /\ named'.candidate.stem = named'.uuid
                  /\ named'.candidate \notin names
             ELSE /\ named'.candidate.stem = ExpectedSlug(given.data[FirstQualifying(given.data)].s)
                  /\ WellFormedSlug(named'.candidate.stem)
          /\ named'.candidate \notin names => named'.path = named'.candidate
          /\ named'.path.ext = Extension(handler)
          /\ named'.path \in names']_vars
\* add has named a record a-b after its name: its slug is an int, its id
\* absent, and its title a usable string too
C17_Witness ==
  /\ named.op = "add" /\ named.nth = 1
  /\ "slug" \in DOMAIN given.data /\ given.data["slug"].tag = "int"
  /\ "id" \notin DOMAIN given.data
  /\ Qualifies(given.data, "name") /\ Qualifies(given.data, "title")
  /\ named.path = MkPath(<<"a", "-", "b">>, Extension(handler))
  /\ named.path \in names

\* candidate with -k appended to its stem
Suffixed(candidate, k) == with_stem(candidate, candidate.stem \o <<"-">> \o IntStr(k))

\* C18: when the derived path <stem><ext> exists, add writes <stem>-k<ext>
\* for the smallest k >= 1 such that <stem>-k<ext> does not exist (so three
\* records deriving the same stem, added to an empty directory, make <stem>,
\* <stem>-1 and <stem>-2).
C18_SmallestFreeSuffix ==
  [][(named'.op = "add" /\ named'.candidate \in names)
       => \E k \in 1..(Cardinality(names) + 1) :
            /\ named'.path = Suffixed(named'.candidate, k)
            /\ Suffixed(named'.candidate, k) \notin names
            /\ \A j \in 1..(k - 1) : Suffixed(named'.candidate, j) \in names]_vars

\* The handler family of a file name, "" when its suffix has none
FamilyOf(p) ==
  IF str_lower(SuffixChars(p.ext)) \in {Dot(Md), Dot(Markdown)} THEN "markdown"
  ELSE IF str_lower(SuffixChars(p.ext)) = Dot(Json) THEN "json"
  ELSE IF str_lower(SuffixChars(p.ext)) \in {Dot(Yaml), Dot(Yml)} THEN "yaml"
  ELSE ""
Families(dir) == {FamilyOf(p) : p \in dir} \ {""}
HasUnregistered(dir) == \E p \in dir : FamilyOf(p) = ""
Constructed == named.op = "init"
Inferred == Constructed /\ ~given.declared
\* A declared format decides the outcome whatever the directory holds
DeclaredDecides ==
  (Constructed /\ given.declared)
    => /\ named.err \in {"none", "UnknownFormatError"}
       /\ named.err = "none" => handler = FORMAT_REGISTRY[str_lower(given.format)]
       /\ named.err # "none" => str_lower(given.format) \notin DOMAIN FORMAT_REGISTRY

\* C19 as stated: without a declared format an empty directory fails with
\* UnknownFormatError, a directory with files of more than one family fails
\* with InconsistentFormatError, a directory with a file of an unregistered
\* extension fails with UnknownFormatError, a directory of one family yields
\* that family's handler; a declared format is never overridden.
C19_InferenceOutcomes ==
  /\ (Inferred /\ names = {}) => named.err = "UnknownFormatError"
  /\ (Inferred /\ Cardinality(Families(names)) > 1) => named.err = "InconsistentFormatError"
  /\ (Inferred /\ HasUnregistered(names)) => named.err = "UnknownFormatError"
  /\ (Inferred /\ ~HasUnregistered(names) /\ Cardinality(Families(names)) = 1)
     => (named.err = "none" /\ Families(names) = {handler})
  /\ DeclaredDecides
\* C19 amended: as stated, except that a directory with files of more than
\* one family fails with InconsistentFormatError when every file has a
\* registered extension, a directory with a file of an unregistered
\* extension fails with UnknownFormatError when its other files belong to at
\* most one family, and a directory with both fails with one of the two
\* errors, whichever file enumeration meets first.
C19_InferenceOutcomesByOrder ==
  /\ (Inferred /\ names = {}) => named.err = "UnknownFormatError"
  /\ (Inferred /\ Cardinality(Families(names)) > 1 /\ ~HasUnregistered(names))
     => named.err = "InconsistentFormatError"
  /\ (Inferred /\ HasUnregistered(names) /\ Cardinality(Families(names)) <= 1)
     => named.err = "UnknownFormatError"
  /\ (Inferred /\ HasUnregistered(names) /\ Cardinality(Families(names)) > 1)
     => named.err \in {"UnknownFormatError", "InconsistentFormatError"}
  /\ (Inferred /\ ~HasUnregistered(names) /\ Cardinality(Families(names)) = 1)
     => (named.err = "none" /\ Families(names) = {handler})
  /\ DeclaredDecides
\* construction without a declared format over a.md, a.json and a.txt has
\* failed with UnknownFormatError
C19_Witness ==
  /\ Inferred
  /\ names = {MkPath(<<"a">>, ".md"), MkPath(<<"a">>, ".json"), MkPath(<<"a">>, ".txt")}
  /\ named.err = "UnknownFormatError"

\* A format name without its leading dot
Undotted(name) == IF name # << >> /\ Head(name) = "." THEN Tail(name) ELSE name
\* C20: each of markdown, md, json, yaml, yml resolves to its handler in any
\* letter case, with or without a leading dot, the dotted and undotted forms
\* to the same handler; every other name fails with UnknownFormatError.
C20_NameResolution ==
  (Constructed /\ given.declared)
    => IF Undotted(str_lower(given.format)) \in {Markdown, Md, Json, Yaml, Yml}
       THEN /\ named.err = "none"
            /\ handler = (CASE Undotted(str_lower(given.format)) \in {Markdown, Md} -> "markdown"
                            [] Undotted(str_lower(given.format)) = Json -> "json"
                            [] OTHER -> "yaml")
       ELSE named.err = "UnknownFormatError"

\* The records passing the predicates of a pipeline, in the one order that is
\* stably sorted by its sort instruction
SortedPassing(name) ==
  CHOOSE S \in Orders(Passing(PredicatesOf(name))) : StablySorted(S, queries[name].sort)
\* The first and the last n elements of S (all of S when it has fewer)
FirstN(S, n) == [i \in 1..(IF n < Len(S) THEN n ELSE Len(S)) |-> S[i]]
LastN(S, n) ==
  [i \in 1..(IF n < Len(S) THEN n ELSE Len(S)) |->
     S[Len(S) - (IF n < Len(S) THEN n ELSE Len(S)) + i]]
\* The transforms of a list applied to S, the first registered first
RECURSIVE TrimsInOrder(_, _)
TrimsInOrder(S, ops) ==
  IF ops = << >> THEN S
  ELSE TrimsInOrder(IF Head(ops).kind = "head" THEN FirstN(S, Head(ops).n)
                    ELSE LastN(S, Head(ops).n),
                    Tail(ops))

\* C25: to_list sorts before it applies any head/tail transform, wherever
\* order_by was called in the chain, and applies the transforms in the order
\* they were registered; order_by keeps the receiver's transforms and
\* predicates and replaces its sort instruction, so that one is in effect;
\* head and tail append their transform after the receiver's and keep its
\* sort instruction.
C25_SortBeforeTrims ==
  [][/\ qlast'.op = "to_list"
        => qlast'.rlist = TrimsInOrder(SortedPassing(qlast'.recv), PostOpsOf(qlast'.recv))
     /\ qlast'.op = "order_by"
        => /\ lists'[queries'[qlast'.made].post_ops] = PostOpsOf(qlast'.recv)
           /\ lists'[queries'[qlast'.made].predicates] = PredicatesOf(qlast'.recv)
           /\ queries'[qlast'.made].sort =
                SortInstruction(<<"date">>, Head(qlast'.field) = "-")
     /\ (qlast'.op \in {"head", "tail"} /\ qlast'.err = "none")
        => /\ lists'[queries'[qlast'.made].post_ops] =
                Append(PostOpsOf(qlast'.recv), PostOp(qlast'.op, qlast'.n))
           /\ queries'[qlast'.made].sort = queries[qlast'.recv].sort]_vars
\* head(1) then order_by("-date"): to_list has returned the record with the
\* latest date, which enumeration yields second
C25_Witness ==
  /\ qlast.op = "to_list" /\ qlast.recv = "right"
  /\ PostOpsOf("left") = <<PostOp("head", 1)>> /\ queries["left"].sort = NoSort
  /\ PostOpsOf("right") = <<PostOp("head", 1)>> /\ queries["right"].sort.descending
  /\ Len(shelf) = 2 /\ KeyLess(shelf[1].date, shelf[2].date)
  /\ qlast.rlist = <<2>>

Twins(a, b) ==
  a # b /\ a \in DOMAIN objVal /\ b \in DOMAIN objVal /\ objVal[a] = objVal[b]

\* C21: for two distinct records a and b with equal field values, a call on
\* a (add, update, upsert, delete, refresh) leaves path_for(b) as it was, so
\* tracking a does not track b; update(b) of an untracked b raises
\* MissingPathError while a is tracked; and add(b) without a path, when a is
\* tracked and its file exists, returns another path than a's and leaves
\* both files in place.
C21_IdentityNotEquality ==
  [][\A c \in Colls, a, b \in DOMAIN objVal :
       Twins(a, b)
       => /\ (last'.c = c /\ last'.obj = a
              /\ last'.op \in {"add", "update", "upsert", "delete", "refresh"})
             => lookup_path(Now', c, b) = path_for(c, b)
          /\ (Tracked(c, a) /\ ~Tracked(c, b)
              /\ last'.op = "update" /\ last'.c = c /\ last'.obj = b)
             => (last'.err = "MissingPathError" /\ fs' = fs)
          /\ (Tracked(c, a) /\ path_for(c, a) \in DOMAIN fs /\ ~Tracked(c, b)
              /\ Succeeded(last', "add", c, b) /\ last'.path = NoPath)
             => /\ last'.rpath # path_for(c, a)
                /\ {path_for(c, a), last'.rpath} \subseteq DOMAIN fs'
                /\ lookup_path(Now', c, a) = path_for(c, a)
                /\ lookup_path(Now', c, b) = last'.rpath]_vars
\* two equal records have been added: each is tracked at its own path and
\* both files exist
C21_Witness ==
  /\ Twins(1, 2)
  /\ last.op = "add" /\ last.obj = 2 /\ last.err = "none"
  /\ Tracked(last.c, 1) /\ Tracked(last.c, 2)
  /\ path_for(last.c, 1) # path_for(last.c, 2)
  /\ {path_for(last.c, 1), path_for(last.c, 2)} \subseteq DOMAIN fs

\* The records a call on c has registered when it returned
RegisteredBy(l, c) ==
  IF l.c = c /\ l.err = "none" /\ l.op \in {"add", "upsert", "get", "to_list", "refresh"}
  THEN {l.obj, l.robj} \cup Range(l.rlist)
  ELSE {}

\* C22: a tracker holds entries of live records only; a record is reported
\* tracked at a path only if it was tracked there before the step or the
\* step's call registered it (so a new record, also one that takes the
\* identity of a dead record, is untracked); and a record deleted from the
\* Collection, by record or by the path it is tracked at, is untracked.
C22_TrackerEntriesExpire ==
  [][\A c \in Colls :
       /\ DOMAIN tracker'[c] \subseteq DOMAIN objVal'
       /\ \A o \in DOMAIN objVal' :
            lookup_path(Now', c, o) # NoPath
            => \/ o \in DOMAIN objVal /\ path_for(c, o) = lookup_path(Now', c, o)
               \/ o \in RegisteredBy(last', c)
       /\ \A o \in DOMAIN objVal :
            (/\ last'.c = c /\ last'.err = "none"
             /\ \/ last'.op = "delete" /\ last'.obj = o
                \/ last'.op = "delete_path" /\ path_for(c, o) = last'.path)
            => lookup_path(Now', c, o) = NoPath]_vars

\* The files present whose extension is one of the handler's
RecognizedFiles == {p \in DOMAIN fs : \E e \in Extensions(fmt) : p.ext = e}

\* C26: an unfiltered to_list() on either Collection, whatever the two
\* Collections and others did to the directory before, returns one record
\* per file now present with one of the handler's extensions: it returns,
\* the list is as long as there are such files, its elements are the records
\* the Collection then holds for those files, each file once, and a file not
\* held before is read from disk; a cached path whose file is gone yields no
\* record.
C26_ListMirrorsDirectory ==
  [][\A c \in Colls :
       (last'.op = "to_list" /\ last'.c = c)
       => /\ last'.err = "none"
          /\ Len(last'.rlist) = Cardinality(RecognizedFiles)
          /\ \E order \in Orders(RecognizedFiles) :
               \A i \in 1..Len(order) :
                 /\ order[i] \in DOMAIN cache'[c]
                 /\ last'.rlist[i] = cache'[c][order[i]]
                 /\ order[i] \notin DOMAIN cache[c]
                    => objVal'[last'.rlist[i]] = OnDisk(order[i])
          /\ DOMAIN cache'[c] = DOMAIN cache[c] \cup RecognizedFiles
          /\ fs' = fs]_vars
\* The text between the opening and the closing delimiter line is raw
HasFrontmatter(text, raw) ==
  \E i \in 0..Len(text) :
    text = <<DELIM, NL>> \o raw \o <<NL, DELIM>> \o SubSeq(text, i + 1, Len(text))
\* The structured content of the file read is a document that is not a mapping
NonMappingContent ==
  IF source.format = "markdown"
  THEN \E raw \in PlainDocs : HasFrontmatter(source.file.text, raw)
  ELSE Strip(source.file.text) \in PlainDocs
ParseErrors == {"ValueError", "JSONDecodeError"}

\* C23: for each of the three handlers, read of a file whose structured
\* content (the frontmatter, the whole YAML document, the whole JSON
\* document) parses to something other than a mapping - a list, a scalar, an
\* empty or falsy value - fails with a parse error raised by the handler and
\* returns no payload.
C23_NonMappingRejected ==
  (payload # NotRead /\ NonMappingContent) => payload.err \in ParseErrors

\* The sub-folders of root tr that contain the parent metadata file, and
\* the child files of a folder: those the child handler reads whose name
\* matches the child pattern
Shown(tr) == {n \in DOMAIN tr : tr[n].dir /\ ParentFile \in tr[n].files}
ChildFiles(tr, n) ==
  {p \in tr[n].files :
     p.ext \in {".md", ".markdown"} /\ path_match(path_name(p), pattern)}
\* record stands for folder n of root tr: its children are the child files
\* of the folder, each once, in ascending order of file name
RecordOf(record, tr, n) ==
  /\ record.path = n
  /\ Len(record.episodes) = Cardinality(ChildFiles(tr, n))
  /\ Range(record.episodes) = ChildFiles(tr, n)
  /\ \A i, j \in 1..Len(record.episodes) :
       i < j => str_less(path_name(record.episodes[i]), path_name(record.episodes[j]))
\* list() returned one record per sub-folder holding the parent file, in
\* ascending order of folder name
ListsFolders(records, tr) ==
  /\ Len(records) = Cardinality(Shown(tr))
  /\ \A i \in 1..Len(records) :
       records[i].path \in Shown(tr) /\ RecordOf(records[i], tr, records[i].path)
  /\ \A i, j \in 1..Len(records) : i < j => str_less(records[i].path, records[j].path)
\* refresh returned a record of the folder that counts one child more than
\* the record the child was added through, the file added among them
RefreshedByOne(records, tr) ==
  /\ Len(records) = 1
  /\ RecordOf(records[1], tr, held.path)
  /\ listed.path \in Range(records[1].episodes)
  /\ Len(records[1].episodes) = Len(held.episodes) + 1
\* The call before was an add through the record held, and the record's
\* children were those of its folder when add was called
AddedThroughHeld ==
  /\ listed.op = "add"
  /\ Range(held.episodes) = ChildFiles(listed.before, held.path)

\* C24: list() yields exactly one record per sub-folder of the root that
\* contains the parent metadata file, in ascending folder-name order, each
\* with its child records ordered by file name; and after a child is added
\* through record.episodes_collection.add, refresh(record) returns a record
\* whose children include the new child, the child count increased by one.
C24_ListAndRefresh ==
  [][/\ listed'.op = "list" => ListsFolders(listed'.records, tree')
     /\ (AddedThroughHeld /\ listed'.op = "refresh")
        => RefreshedByOne(listed'.records, tree')]_vars

\* C24 as amended: list() as above; and after a child is added through
\* record.episodes_collection.add to a file that was not there and whose
\* name matches the child pattern, refresh(record) returns a record whose
\* children include the new child, the child count increased by one.  An add
\* without a path under the default pattern *.md is such an add.
C24_ListAndRefreshOfNewMatch ==
  [][/\ listed'.op = "list" => ListsFolders(listed'.records, tree')
     /\ (AddedThroughHeld /\ listed'.op = "refresh"
           /\ listed.path \notin listed.before[held.path].files
           /\ matches_child_pattern(listed.path, pattern))
        => RefreshedByOne(listed'.records, tree')
     /\ (listed'.op = "add" /\ listed'.explicit = NoPath /\ pattern = DefaultPattern)
        => /\ listed'.path \notin tree[held.path].files
           /\ matches_child_pattern(listed'.path, pattern)]_vars
\* refresh has returned a record with e-1.md before e.md, one child more
\* than the record held, which was got before a second episode titled E was
\* added through it without a path; both folders hold the parent file
C24_Witness ==
  /\ listed.op = "refresh"
  /\ Len(listed.records) = 1
  /\ listed.records[1].episodes
       = <<MkPath(<<"e", "-", "1">>, ".md"), MkPath(<<"e">>, ".md")>>
  /\ held.episodes = <<MkPath(<<"e">>, ".md")>>
  /\ Shown(tree) = EntryNames

====
